---- MODULE Spec2Model ----
(***************************************************************************)
(* Model of the CRS derivation pipeline of csvForWKT (src/src/csv2WKT.py,  *)
(* class WKTcrs): the table of bodies is turned into the ellipsoid, datum, *)
(* planetodetic and projection tables by WKTcrs.process.                   *)
(*                                                                         *)
(* A pandas DataFrame is a sequence of records (one record per row, one    *)
(* field per column); where the code addresses rows by index label the     *)
(* record carries the label in the field "index".  A cell that pandas can  *)
(* hold either a number or a string in is a tagged record, Num(x) or       *)
(* Str(s).  Lengths are integers (the sample radii are multiples of 3, so  *)
(* that (a+b+c)/3 is exact).  NaN cells of text columns are the text "NaN",*)
(* which is what read_csv parses to NaN.                                   *)
(***************************************************************************)
EXTENDS Integers, Sequences, FiniteSets, TLC

VARIABLES _df, _ellipsoid, _datum, _planetodetic, _projection, processed,
          series, instance, raised, returned, history

\* The fields of a WKTcrs.
crsVars == <<_df, _ellipsoid, _datum, _planetodetic, _projection, processed>>

\* A record handed to TemplateWKTFactory.create, the instance it made, the exception
\* the last call raised, what the last read of the wkt returned, and the calls so far.
wktVars == <<series, instance, raised, returned, history>>

vars == <<_df, _ellipsoid, _datum, _planetodetic, _projection, processed,
          series, instance, raised, returned, history>>

(***************************************************************************)
(* Bounds of the model.                                                    *)
(***************************************************************************)
\* The largest number of rows of the table of bodies.
MaxRows == 3

(***************************************************************************)
(* Cells and sequences.                                                    *)
(***************************************************************************)
NaN == "NaN"

Num(x) == [kind |-> "num", num |-> x]

Str(s) == [kind |-> "str", str |-> s]

\* Python's x != c for a number x and a cell c: a number never equals a string.
NumNeCell(x, c) == IF c.kind = "num" THEN x # c.num ELSE TRUE

Range(s) == {s[i] : i \in 1..Len(s)}

RECURSIVE Flatten(_)
Flatten(ss) == IF ss = <<>> THEN <<>> ELSE Head(ss) \o Flatten(Tail(ss))

\* The rows of s in increasing order of code; rows of equal code keep their order.
RECURSIVE InsertByCode(_, _)
InsertByCode(r, s) ==
    IF s = <<>> THEN <<r>>
    ELSE IF r.code < Head(s).code THEN <<r>> \o s
    ELSE <<Head(s)>> \o InsertByCode(r, Tail(s))

RECURSIVE SortByCode(_)
SortByCode(s) ==
    IF s = <<>> THEN <<>>
    ELSE InsertByCode(s[Len(s)], SortByCode(SubSeq(s, 1, Len(s) - 1)))

(***************************************************************************)
(* The table of bodies (the CSV file read by WKTcrs.__init__): one row per *)
(* body, keyed by its NAIF identifier.  The rows are drawn from sample     *)
(* bodies: the three bodies the code names, and Mars for every shape.      *)
(***************************************************************************)
BodyRow(Naif_id, Body, axes, mean, rotation, meridian) ==
    [ Naif_id           |-> Naif_id,
      Body              |-> Body,
      IAU2015_Semimajor |-> axes[1],
      IAU2015_Axisb     |-> axes[2],
      IAU2015_Semiminor |-> axes[3],
      IAU2015_Mean      |-> mean,
      rotation          |-> rotation,
      origin_long_name  |-> meridian[1],
      origin_lon_pos    |-> meridian[2] ]

\* <<IAU2015_Semimajor, IAU2015_Axisb, IAU2015_Semiminor>>; -1 stands for an absent axis.
AxisTriples ==
    { <<9, 9, 9>>, <<9, 9, 6>>, <<9, 6, 6>>, <<9, 6, 3>>, <<9, 6, 9>>, <<9, -1, 6>> }

\* IAU2015_Mean; -1 stands for an absent mean radius.
MeanValues == { -1, 7 }

RotationValues == { "Direct", "Retrograde", NaN }

\* <<origin_long_name, origin_lon_pos>>
NoMeridian == <<NaN, NaN>>

MeridianValues == { NoMeridian, <<"Greenwich", "0.0">> }

SunRows ==
    { BodyRow(10, "Sun", <<9, 9, 9>>, 9, rot, NoMeridian) : rot \in {"Direct", "Retrograde"} }

MoonRows ==
    { BodyRow(301, "Moon", <<9, 6, 3>>, 7, rot, NoMeridian) : rot \in {"Direct", NaN} }

EarthRows ==
    { BodyRow(399, "Earth", <<9, 9, 6>>, 8, rot, pm) :
        rot \in RotationValues, pm \in MeridianValues }

MarsRows ==
    { BodyRow(499, "Mars", ax, mean, "Direct", NoMeridian) :
        ax \in AxisTriples, mean \in MeanValues }
    \cup
    { BodyRow(499, "Mars", ax, 7, rot, NoMeridian) :
        ax \in { <<9, 9, 6>>, <<9, 6, 3>> }, rot \in RotationValues }

RowDomain == SunRows \cup MoonRows \cup EarthRows \cup MarsRows

\* The tables of 1..MaxRows bodies; the identifier of a body names one row.
Tables ==
    { t \in UNION { [1..n -> RowDomain] : n \in 1..MaxRows } :
        \A i, j \in 1..Len(t) : t[i].Naif_id = t[j].Naif_id => i = j }

(***************************************************************************)
(* WKTcrs.__skipRecords, __processLongitudePositive, __processZeroLongitude*)
(***************************************************************************)
skipRecords(df) ==
    LET Keep(r) == /\ r.IAU2015_Semimajor # -1
                   /\ r.IAU2015_Axisb # -1
                   /\ r.IAU2015_Semiminor # -1
    IN  SelectSeq(df, Keep)

\* DataFrame.replace of the two rotation senses, applied to a text cell.
\* replaceRotation with a direct rotation taken as positive to the east.
replaceRotationEastward(v) ==
    IF v = "Direct" THEN "east" ELSE IF v = "Retrograde" THEN "east" ELSE v

replaceRotation(v) ==
    IF v = "Direct" THEN "west" ELSE IF v = "Retrograde" THEN "east" ELSE v

processLongitudePositive(df) ==
    LET Replaced(r) ==
            [r EXCEPT !.Body = replaceRotation(@),
                      !.rotation = replaceRotation(@),
                      !.origin_long_name = replaceRotation(@)]
        Historic(r) ==
            IF r.Body = "Sun" \/ r.Body = "Moon" \/ r.Body = "Earth"
            THEN [r EXCEPT !.rotation = "east"]
            ELSE r
        Row(r) == Historic(Replaced(r))
    IN  [pos \in DOMAIN df |-> Row(df[pos])]

\* processZeroLongitude setting the defaults on the rows whose rotation is not given.
processZeroLongitudeByRotation(df) ==
    LET Row(r) ==
            IF r.rotation = NaN
            THEN [r EXCEPT !.origin_lon_pos = "0.0",
                           !.origin_long_name = "Reference_Meridian"]
            ELSE r
    IN  [pos \in DOMAIN df |-> Row(df[pos])]

processZeroLongitude(df) ==
    LET Row(r) ==
            [r EXCEPT !.origin_lon_pos = IF @ = NaN THEN "0.0" ELSE @,
                      !.origin_long_name = IF @ = NaN THEN "Reference_Meridian" ELSE @]
    IN  [pos \in DOMAIN df |-> Row(df[pos])]

(***************************************************************************)
(* WKTcrs.__ellipsoid                                                      *)
(***************************************************************************)
\* The label of the k-th copy of a row: rows 0::3, 1::3 and 2::3 of the tripled table.
typeOfIndex(i) ==
    IF i % 3 = 0 THEN "SPHERE" ELSE IF i % 3 = 1 THEN "ELLIPSE" ELSE "TRIAXIAL"

\* The query "semiMajorAxis != semiMedianAxis and semiMinorAxis != semiMedianAxis".
isTriaxialBody(r) ==
    /\ NumNeCell(r.semiMajorAxis, r.semiMedianAxis)
    /\ NumNeCell(r.semiMinorAxis, r.semiMedianAxis)

\* The query selecting the ELLIPSE records dropped for want of a mean radius.
elipseBodyToRemove(r) ==
    r.IAU2015_Mean = -1 /\ (r.type # "TRIAXIAL" /\ r.type # "SPHERE")

ellipsoid(df) ==
    LET n == Len(df)
        \* append([ellipsoid]*2, ignore_index=True): three copies, one after the other
        Copy(k) ==
            LET i == k - 1
                b == df[(i % n) + 1]
                t == typeOfIndex(i)
            IN  [ index             |-> i,
                  authority         |-> "IAU",
                  version           |-> 2015,
                  code              |-> IF t = "SPHERE" THEN b.Naif_id * 100
                                        ELSE IF t = "ELLIPSE" THEN b.Naif_id * 100 + 1
                                        ELSE b.Naif_id * 100 + 2,
                  name              |-> IF t = "SPHERE"
                                        THEN b.Body \o " (2015) - Sphere"
                                        ELSE b.Body \o " (2015)",
                  semiMajorAxis     |-> b.IAU2015_Semimajor,
                  semiMedianAxis    |-> Num(b.IAU2015_Axisb),
                  semiMinorAxis     |-> b.IAU2015_Semiminor,
                  IAU2015_Mean      |-> b.IAU2015_Mean,
                  Naif_id           |-> b.Naif_id,
                  inverseFlatenning |-> Str(""),
                  type              |-> t ]
        cases == [k \in 1..(3 * n) |-> Copy(k)]
        \* case1: R_m = (a+b+c)/3 when the mean radius is not defined
        NotRemoved(r) == ~elipseBodyToRemove(r)
        kept == SelectSeq(cases, NotRemoved)
        MedianSphere(r) ==
            IF r.IAU2015_Mean = -1 /\ r.type = "SPHERE"
            THEN [r EXCEPT !.IAU2015_Mean =
                     (r.semiMajorAxis + r.semiMinorAxis + r.semiMedianAxis.num) \div 3]
            ELSE r
        withMean == [pos \in DOMAIN kept |-> MedianSphere(kept[pos])]
        \* Spherical case
        Sphere(r) ==
            IF r.type # "SPHERE" THEN r
            ELSE IF isTriaxialBody(r)
            THEN [r EXCEPT !.semiMajorAxis = r.IAU2015_Mean,
                           !.semiMinorAxis = r.IAU2015_Mean,
                           !.semiMedianAxis = Str("")]
            ELSE [r EXCEPT !.semiMinorAxis = r.semiMajorAxis,
                           !.semiMedianAxis = Str("")]
        spheres == [pos \in DOMAIN withMean |-> Sphere(withMean[pos])]
        \* Ellipse case
        EllipseKept(r) == ~(r.type = "ELLIPSE" /\ isTriaxialBody(r))
        Ellipse(r) ==
            IF r.type = "ELLIPSE" THEN [r EXCEPT !.semiMedianAxis = Str("")] ELSE r
        ellipses == [pos \in DOMAIN SelectSeq(spheres, EllipseKept) |-> Ellipse((SelectSeq(spheres, EllipseKept))[pos])]
        \* Triaxial case
        TriaxialKept(r) == ~(r.type = "TRIAXIAL" /\ ~isTriaxialBody(r))
        triaxials == SelectSeq(ellipses, TriaxialKept)
    IN  SortByCode(triaxials)

(***************************************************************************)
(* WKTcrs.__datum                                                          *)
(***************************************************************************)
\* 'authority:version:code', the reference to a record of another table.
reference(r) == r.authority \o ":" \o ToString(r.version) \o ":" \o ToString(r.code)

datum(df, ellipsoidTable) ==
    LET \* pd.merge(datum, df_datum, on='Naif_id')
        Joined(e) ==
            LET Match(d) == d.Naif_id = e.Naif_id
                Row(d) ==
                    [ Naif_id            |-> e.Naif_id,
                      type               |-> e.type,
                      authority          |-> e.authority,
                      version            |-> e.version,
                      code               |-> e.code,
                      name               |-> e.name,
                      body               |-> d.Body,
                      ellipsoid          |-> reference(e),
                      primeMeridianName  |-> d.origin_long_name,
                      primeMeridianValue |-> d.origin_lon_pos ]
            IN  [pos \in DOMAIN SelectSeq(df, Match) |-> Row((SelectSeq(df, Match))[pos])]
    IN  SortByCode(Flatten([pos \in DOMAIN ellipsoidTable |-> Joined(ellipsoidTable[pos])]))

(***************************************************************************)
(* WKTcrs.__splitDatumCase and WKTcrs.__planetodetic                       *)
(***************************************************************************)
\* isOgraphicCase with the test on 'Moon' left out.
isOgraphicCaseMoonForgotten(r) ==
    r.longitudeDirection # NaN /\ r.Body # "Sun"

\* The condition of the ographic rows: a known longitude direction, and not Sun or Moon.
isOgraphicCase(r) ==
    r.longitudeDirection # NaN /\ (r.Body # "Sun" /\ r.Body # "Moon")

splitDatumCase(df) ==
    [ ographic |-> SelectSeq(df, isOgraphicCase), ocentric |-> df ]

\* The variant-tag ('id') of an ocentric record of the given shape.
ocentricId(type) == IF type = "SPHERE" THEN 0 ELSE IF type = "ELLIPSE" THEN 2 ELSE 4

\* ographicId giving the ographic ELLIPSE record the tag of the ocentric one.
ographicIdOfOcentric(type) == IF type = "ELLIPSE" THEN 2 ELSE 3

\* The variant-tag ('id') of an ographic record of the given shape.
ographicId(type) == IF type = "ELLIPSE" THEN 1 ELSE 3

\* ocentric.loc[index, 'Naif_id']: the Naif_id of the row of the table labelled index.
naifIdAt(table, index) ==
    table[CHOOSE j \in 1..Len(table) : table[j].index = index].Naif_id

\* ographicCode with the ELLIPSE identifier scaled by 10 instead of 100.
ographicCodeTenfold(r, ocentric) ==
    IF r.type = "ELLIPSE" THEN naifIdAt(ocentric, r.index) * 10 + 1
    ELSE r.Naif_id * 100 + 3

\* The code of the ographic record r; the ELLIPSE case reads Naif_id in the ocentric frame.
ographicCode(r, ocentric) ==
    IF r.type = "ELLIPSE" THEN naifIdAt(ocentric, r.index) * 100 + 1
    ELSE r.Naif_id * 100 + 3

planetodetic(df, datumTable) ==
    LET \* pd.merge(datum[...], df[['Naif_id','longitudeDirection','Body']], on='Naif_id')
        Joined(d) ==
            LET Match(b) == b.Naif_id = d.Naif_id
                Row(b) ==
                    [ Naif_id            |-> d.Naif_id,
                      authority          |-> d.authority,
                      version            |-> d.version,
                      code               |-> d.code,
                      name               |-> d.name,
                      ellipsoid          |-> d.ellipsoid,
                      type               |-> d.type,
                      longitudeDirection |-> b.rotation,
                      Body               |-> b.Body ]
            IN  [pos \in DOMAIN SelectSeq(df, Match) |-> Row((SelectSeq(df, Match))[pos])]
        merged == Flatten([pos \in DOMAIN datumTable |-> Joined(datumTable[pos])])
        df_planeto ==
            [k \in 1..Len(merged) |->
                [ index              |-> k - 1,
                  Naif_id            |-> merged[k].Naif_id,
                  authority          |-> merged[k].authority,
                  version            |-> merged[k].version,
                  code               |-> merged[k].code,
                  name               |-> merged[k].name,
                  ellipsoid          |-> merged[k].ellipsoid,
                  type               |-> merged[k].type,
                  longitudeDirection |-> merged[k].longitudeDirection,
                  Body               |-> merged[k].Body ]]
        split == splitDatumCase(df_planeto)
        NotHistorical(r) ==
            ~((r.Body = "Sun" \/ r.Body = "Moon") /\ r.type # "SPHERE")
        ocentric0 == SelectSeq(split.ocentric, NotHistorical)
        Ocentric(r) ==
            [ index              |-> r.index,
              Naif_id            |-> r.Naif_id,
              authority          |-> r.authority,
              version            |-> r.version,
              code               |-> r.Naif_id * 100 + ocentricId(r.type),
              name               |-> r.name \o " / Ocentric",
              datum              |-> r.ellipsoid,
              csType             |-> "spherical",
              type               |-> r.type,
              longitudeDirection |-> "east",
              id                 |-> ocentricId(r.type) ]
        ocentric == [pos \in DOMAIN ocentric0 |-> Ocentric(ocentric0[pos])]
        NotSphere(r) == r.type # "SPHERE"
        ographic0 == SelectSeq(split.ographic, NotSphere)
        Ographic(r) ==
            [ index              |-> r.index,
              Naif_id            |-> r.Naif_id,
              authority          |-> r.authority,
              version            |-> r.version,
              code               |-> ographicCode(r, ocentric),
              name               |-> r.name \o " / Ographic",
              datum              |-> r.ellipsoid,
              csType             |-> "ellipsoidal",
              type               |-> r.type,
              longitudeDirection |-> r.longitudeDirection,
              id                 |-> ographicId(r.type) ]
        ographic == [pos \in DOMAIN ographic0 |-> Ographic(ographic0[pos])]
    IN  SortByCode(ocentric \o ographic)

(***************************************************************************)
(* WKTcrs.__projection.  The catalog rows carry proj_id, authority,        *)
(* version, id (the variant-tag the row applies to), name and method; the  *)
(* six parameter name/value columns are carried through unchanged by the   *)
(* merge and are not part of this table.                                   *)
(***************************************************************************)
catalogRow(proj_id, name, method) ==
    [ proj_id   |-> proj_id,
      authority |-> "IAU",
      version   |-> "2005",
      id        |-> proj_id % 5,
      name      |-> name,
      method    |-> method ]

\* The projection catalog of WKTcrs.__projection: rows 10..59, five rows per projection.
data ==
    LET names ==
            << "Equirectangular, clon=0", "Equirectangular, clon=180",
               "Sinusoidal, clon=0", "Sinusoidal, clon=180",
               "North Polar, clon=0", "South Polar, clon=0",
               "Mollweide, clon=0", "Mollweide, clon=180",
               "Robinson, clon=0", "Robinson, clon=180" >>
        methods ==
            << "Equirectangular", "Equirectangular", "Sinusoidal", "Sinusoidal",
               "Stereographic", "Stereographic", "Mollweide", "Mollweide",
               "Robinson", "Robinson" >>
    IN  [k \in 1..(5 * Len(names)) |->
            catalogRow(k + 9, names[((k - 1) \div 5) + 1], methods[((k - 1) \div 5) + 1])]

\* The projection catalog of IProjectedCRS.getProjectionCode: rows 10..84.
getProjectionCode ==
    LET names ==
            << "Equirectangular, clon = 0", "Equirectangular, clon = 180",
               "Sinusoidal, clon = 0", "Sinusoidal, clon = 180",
               "North Polar, clon = 0", "South Polar, clon = 0",
               "Mollweide, clon = 0", "Mollweide, clon = 180",
               "Robinson, clon = 0", "Robinson, clon = 180",
               "Tranverse Mercator", "Orthographic", "Lambert Conic Conformal",
               "Lambert Azimuthal Equal Area", "Albers Equal Area" >>
        methods ==
            << "Equidistant Cylindrical", "Equidistant Cylindrical",
               "Sinusoidal", "Sinusoidal", "Stereographic", "Stereographic",
               "Mollweide", "Mollweide", "Robinson", "Robinson",
               "Transverse Mercator", "Orthographic", "Lambert Conic Conformal (2SP)",
               "Lambert Azimuthal Equal Area", "Albers Equal Area" >>
        Row(k) ==
            LET p == k + 9
                g == ((k - 1) \div 5) + 1
            IN  IF p = 10
                THEN catalogRow(p, names[g], "Equidistant Cylindrical (Spherical)")
                ELSE IF p = 75
                THEN catalogRow(p, "Lambert Azimuthal Equal Area (Spherical)",
                                   "Lambert Azimuthal Equal Area (Spherical)")
                ELSE catalogRow(p, names[g], methods[g])
    IN  [k \in 1..(5 * Len(names)) |-> Row(k)]

\* projectedCode adding the column 'id' (the variant-tag of the row) instead of 'proj_id'.
projectedCodeByVariant(code, proj_id) == code + (proj_id % 5)

\* projectedCode numbering from the body alone: body_id * 100 + proj_id.
projectedCodeOfBody(code, proj_id) == (code \div 100) * 100 + proj_id

\* projection_df['code'] += projection_df['proj_id']
projectedCode(code, proj_id) == code + proj_id

\* projectionJoin as a cross join: every catalog row for every planetodetic record.
projectionJoinCross(planetodeticTable, catalog) ==
    LET Joined(p) ==
            LET Row(c) ==
                    [ id        |-> p.id,
                      baseCRS   |-> reference(p),
                      code      |-> projectedCode(p.code, c.proj_id),
                      proj_id   |-> c.proj_id,
                      authority |-> c.authority,
                      version   |-> c.version,
                      name      |-> c.name,
                      method    |-> c.method ]
            IN  [pos \in DOMAIN catalog |-> Row(catalog[pos])]
    IN  Flatten([pos \in DOMAIN planetodeticTable |-> Joined(planetodeticTable[pos])])

\* pd.merge(planetodetic[['id','baseCRS','code']], df, on='id') and the code of each row.
projectionJoin(planetodeticTable, catalog) ==
    LET Joined(p) ==
            LET Match(c) == c.id = p.id
                Row(c) ==
                    [ id        |-> p.id,
                      baseCRS   |-> reference(p),
                      code      |-> projectedCode(p.code, c.proj_id),
                      proj_id   |-> c.proj_id,
                      authority |-> c.authority,
                      version   |-> c.version,
                      name      |-> c.name,
                      method    |-> c.method ]
            IN  [pos \in DOMAIN SelectSeq(catalog, Match) |-> Row((SelectSeq(catalog, Match))[pos])]
    IN  Flatten([pos \in DOMAIN planetodeticTable |-> Joined(planetodeticTable[pos])])

projection(planetodeticTable) == projectionJoin(planetodeticTable, data)

(***************************************************************************)
(* The state: the table of bodies and the four result tables of a WKTcrs.  *)
(* The result tables are None until process has run (processed = FALSE);   *)
(* each holds every column of the frame the stage returned, of which       *)
(* process keeps the documented ones.                                      *)
(***************************************************************************)
\* No record has been handed to the factory, and no instance exists.
NoSeries == [kind |-> "none"]

NoInstance == [class |-> "None"]

\* No exception was raised.
NoError == "none"

\* The wkt has not been read.
NotCalled == [called |-> FALSE]

\* No computeWKT has completed.
NoHistory == [computes |-> 0, first |-> [kind |-> "None"], setAfterFirst |-> FALSE]

Init ==
    /\ _df \in Tables
    /\ _ellipsoid = <<>>
    /\ _datum = <<>>
    /\ _planetodetic = <<>>
    /\ _projection = <<>>
    /\ processed = FALSE
    /\ series = NoSeries
    /\ instance = NoInstance
    /\ raised = NoError
    /\ returned = NotCalled
    /\ history = NoHistory

\* WKTcrs.process
process ==
    LET df == processZeroLongitude(processLongitudePositive(skipRecords(_df)))
        ellipsoidResult == ellipsoid(df)
        datumResult == datum(df, ellipsoidResult)
        planetodeticResult == planetodetic(df, datumResult)
    IN  /\ _ellipsoid' = ellipsoidResult
        /\ _datum' = datumResult
        /\ _planetodetic' = planetodeticResult
        /\ _projection' = projection(planetodeticResult)
        /\ processed' = TRUE
        /\ UNCHANGED _df
        /\ UNCHANGED wktVars

Next == process

Spec == Init /\ [][Next]_vars

(***************************************************************************)
(* Vocabulary of the properties.                                           *)
(***************************************************************************)
\* The rows of the table of bodies whose three semi-axes are all present.
PresentRows ==
    { b \in Range(_df) : /\ b.IAU2015_Semimajor # -1
                         /\ b.IAU2015_Axisb # -1
                         /\ b.IAU2015_Semiminor # -1 }

\* The three semi-axes of the row are pairwise distinct.
PairwiseDistinct(b) ==
    /\ b.IAU2015_Semimajor # b.IAU2015_Axisb
    /\ b.IAU2015_Axisb # b.IAU2015_Semiminor
    /\ b.IAU2015_Semimajor # b.IAU2015_Semiminor

\* The positions of the ellipsoid records of the given shape made for the body row b.
EllipsoidRecords(b, type) ==
    { i \in 1..Len(_ellipsoid) :
        _ellipsoid[i].Naif_id = b.Naif_id /\ _ellipsoid[i].type = type }

\* The name of the body whose identifier is Naif_id.
BodyName(Naif_id) == (CHOOSE b \in Range(_df) : b.Naif_id = Naif_id).Body

\* The variant-tag that stands for a shape and a coordinate-system type.
VariantTag(type, csType) ==
    IF type = "SPHERE" /\ csType = "spherical" THEN 0
    ELSE IF type = "ELLIPSE" /\ csType = "ellipsoidal" THEN 1
    ELSE IF type = "ELLIPSE" /\ csType = "spherical" THEN 2
    ELSE IF type = "TRIAXIAL" /\ csType = "ellipsoidal" THEN 3
    ELSE IF type = "TRIAXIAL" /\ csType = "spherical" THEN 4
    ELSE -1

\* The planetodetic records that the projected record r refers to as its base CRS.
BaseRecords(r) == { p \in Range(_planetodetic) : reference(p) = r.baseCRS }

\* <<code, body ids, variant-tag, catalog row>> of every record of a projection table.
ProjectedKeys(table) ==
    { <<r.code, { p.Naif_id : p \in BaseRecords(r) }, r.id, r.proj_id>> :
        r \in Range(table) }

\* The code of a record of the table determines its body id, variant-tag and catalog row.
CodeDetermines(table) ==
    LET keys == ProjectedKeys(table)
    IN  /\ \A k \in keys : Cardinality(k[2]) = 1
        /\ Cardinality({ k[1] : k \in keys }) = Cardinality(keys)

(***************************************************************************)
(* C1.  Every planetodetic record has code = body_id * 100 + variant-tag,  *)
(* the tag being the one of its shape and convention (0..4), so that       *)
(* (code mod 100, code div 100) = (variant-tag, body_id); the body is a    *)
(* body of the table.  This includes the ographic ELLIPSE records.         *)
(***************************************************************************)
C1_PlanetodeticCode ==
    processed =>
        \A r \in Range(_planetodetic) :
            /\ r.id \in 0..4
            /\ r.id = VariantTag(r.type, r.csType)
            /\ \E b \in PresentRows : b.Naif_id = r.Naif_id
            /\ r.code = r.Naif_id * 100 + r.id
            /\ r.code % 100 = r.id
            /\ r.code \div 100 = r.Naif_id

C1_Witness ==
    /\ processed
    /\ \E r \in Range(_planetodetic) : r.id = 1 /\ r.type = "ELLIPSE" /\ r.code = 49901

(***************************************************************************)
(* C2.  No two records of the catalog (planetodetic and projected records  *)
(* together) carry the same code.                                          *)
(***************************************************************************)
C2_UniqueCodes ==
    processed =>
        Cardinality({ r.code : r \in Range(_planetodetic) \cup Range(_projection) })
            = Len(_planetodetic) + Len(_projection)

(***************************************************************************)
(* C3.  Two projected records of equal code have the same body id, the     *)
(* same variant-tag and the same catalog row, both in the projection table *)
(* and when the planetodetic records are joined with the catalog of        *)
(* getProjectionCode (rows 10..84).                                        *)
(***************************************************************************)
C3_ProjectedCodeReversible ==
    processed =>
        /\ CodeDetermines(_projection)
        /\ CodeDetermines(projectionJoin(_planetodetic, getProjectionCode))

C3_Witness ==
    /\ processed
    /\ \E r1, r2 \in Range(_projection) :
          /\ r1.code = 49912 /\ r1.id = 1 /\ r1.proj_id = 11
          /\ r2.code = 49914 /\ r2.id = 2 /\ r2.proj_id = 12
    /\ \E r \in Range(projectionJoin(_planetodetic, getProjectionCode)) :
          r.proj_id = 82 /\ r.code = 49984

C5_DocumentedProjectedCode ==
    processed =>
        \A r \in Range(_projection) :
            \A p \in BaseRecords(r) : r.code = p.Naif_id * 100 + r.proj_id

(***************************************************************************)
(* C6.  Each body row whose three semi-axes are present yields exactly one *)
(* SPHERE ellipsoid record, of code body_id * 100.                         *)
(***************************************************************************)
C6_OneSpherePerBody ==
    processed =>
        \A b \in PresentRows :
            /\ Cardinality(EllipsoidRecords(b, "SPHERE")) = 1
            /\ \A i \in EllipsoidRecords(b, "SPHERE") :
                  _ellipsoid[i].code = b.Naif_id * 100

(***************************************************************************)
(* C7.  A body row whose three semi-axes are present and pairwise distinct *)
(* has a TRIAXIAL ellipsoid record (code body_id * 100 + 2) and no ELLIPSE *)
(* record.                                                                 *)
(***************************************************************************)
C7_TriaxialBodyRecords ==
    processed =>
        \A b \in PresentRows :
            PairwiseDistinct(b) =>
                /\ \E i \in EllipsoidRecords(b, "TRIAXIAL") :
                      _ellipsoid[i].code = b.Naif_id * 100 + 2
                /\ EllipsoidRecords(b, "ELLIPSE") = {}

(***************************************************************************)
(* C8.  A body row whose three semi-axes are present and whose median axis *)
(* equals its major or its minor axis has an ELLIPSE record and no         *)
(* TRIAXIAL record, whatever its mean radius.                              *)
(***************************************************************************)
C8_BiaxialBodyRecords ==
    processed =>
        \A b \in PresentRows :
            (b.IAU2015_Axisb = b.IAU2015_Semimajor \/ b.IAU2015_Axisb = b.IAU2015_Semiminor)
                => /\ EllipsoidRecords(b, "ELLIPSE") # {}
                   /\ EllipsoidRecords(b, "TRIAXIAL") = {}

(***************************************************************************)
(* C9.  In the ellipsoid table every SPHERE record has inverse flattening  *)
(* 0 and every ELLIPSE record has inverse flattening a / (a - b), or 0     *)
(* when a = b (a the semi-major and b the semi-minor axis).                *)
(***************************************************************************)
C9_InverseFlattening ==
    processed =>
        \A r \in Range(_ellipsoid) :
            /\ r.type = "SPHERE" => r.inverseFlatenning = Num(0)
            /\ r.type = "ELLIPSE" =>
                  IF r.semiMajorAxis = r.semiMinorAxis
                  THEN r.inverseFlatenning = Num(0)
                  ELSE /\ r.inverseFlatenning.kind = "num"
                       /\ r.inverseFlatenning.num * (r.semiMajorAxis - r.semiMinorAxis)
                              = r.semiMajorAxis

(***************************************************************************)
(* C10.  The planetodetic table holds no ographic record (variant-tag 1 or *)
(* 3) of the body 'Sun' or of the body 'Moon'.                             *)
(***************************************************************************)
C10_NoOgraphicSunMoon ==
    processed =>
        \A r \in Range(_planetodetic) :
            (r.id = 1 \/ r.id = 3 \/ r.csType = "ellipsoidal") =>
                /\ BodyName(r.Naif_id) # "Sun"
                /\ BodyName(r.Naif_id) # "Moon"

C10_Witness ==
    /\ processed
    /\ \E b \in PresentRows :
          /\ b.Body = "Moon"
          /\ b.rotation = "Direct"
          /\ \E d \in Range(_datum) : d.Naif_id = b.Naif_id /\ d.type = "TRIAXIAL"
          /\ \E r \in Range(_planetodetic) : r.Naif_id = b.Naif_id /\ r.id = 0
    /\ \E r \in Range(_planetodetic) : r.id = 3

\* The row of the table of bodies whose identifier is Naif_id.
BodyRowOf(Naif_id) == CHOOSE b \in Range(_df) : b.Naif_id = Naif_id

\* The ographic records of the planetodetic table.
OgraphicRecords == { r \in Range(_planetodetic) : r.csType = "ellipsoidal" }

\* The positions of the ocentric records of the planetodetic table made for the datum d.
OcentricRecords(d) ==
    { i \in 1..Len(_planetodetic) :
        /\ _planetodetic[i].csType = "spherical"
        /\ _planetodetic[i].datum = reference(d) }

C12_OneOcentricPerDatum ==
    processed =>
        \A d \in Range(_datum) :
            /\ Cardinality(OcentricRecords(d)) = 1
            /\ \A i \in OcentricRecords(d) : _planetodetic[i].longitudeDirection = "east"

(***************************************************************************)
(* C13.  No body whose rotation field is absent in the table of bodies has *)
(* an ographic planetodetic record, whatever its name.                     *)
(***************************************************************************)
C13_OgraphicOnlyIfRotationDeclared ==
    processed =>
        \A r \in OgraphicRecords : BodyRowOf(r.Naif_id).rotation \in {"Direct", "Retrograde"}

(***************************************************************************)
(* The CRS variant classes (src/wkt) and their factory.  A pd.Series is a  *)
(* record; "baseCRS" in data is the field hasBaseCRS.  A rendered text is  *)
(* the record of the values substituted in its template, a template being *)
(* named by the keyword it opens with.  The projected classes inherit      *)
(* IProjectedCRS, which is src/src/iprojectedwkt.py.                       *)
(***************************************************************************)
\* The value None of Python.
None == [kind |-> "None"]

\* The not-a-number value of a parameter column.
nan == [kind |-> "nan"]

\* math.isnan
isnan(v) == v.kind = "nan"

\* One of the six parameter slots of a projected record.
Slot(name, value) == [name |-> name, value |-> value]

EmptySlot == Slot(nan, nan)

(***************************************************************************)
(* The catalog of IProjectedCRS.getProjectionCode with its parameter       *)
(* columns: one row per projection and variant of the enumeration DATUM.   *)
(***************************************************************************)
\* class DATUM(Enum)
DATUM ==
    [ SPHERE             |-> 0,
      ELLIPSOID_OGRAPHIC |-> 1,
      ELLIPSOID_OCENTRIC |-> 2,
      TRIAXIAL_OGRAPHIC  |-> 3,
      TRIAXIAL_OCENTRIC  |-> 4 ]

\* A number with a fractional part, in ten-thousandths: 0.9996 is Float(0, 9996).
Float(units, tenThousandths) == [kind |-> "num", num |-> units, frac |-> tenThousandths]

\* A row of the list 'data' of getProjectionCode.
projectionCodeRow(proj_id, variant, title, methodName, parameters) ==
    [ proj_id    |-> proj_id,
      authority  |-> "IAU",
      version    |-> "2005",
      id         |-> variant,
      name       |-> title,
      method     |-> methodName,
      parameters |-> parameters ]

\* The list 'data' of getProjectionCode, row by row.
projectionCodeData ==
    <<
        projectionCodeRow(10, DATUM.SPHERE, "Equirectangular, clon = 0", "Equidistant Cylindrical (Spherical)",
            << Slot(Str("False easting"), Num(0)), Slot(Str("False northing"), Num(0)),
               Slot(Str("Longitude of natural origin"), Num(0)), Slot(Str("Latitude of 1st standard parallel"), Num(0)),
               EmptySlot, EmptySlot >>),
        projectionCodeRow(11, DATUM.ELLIPSOID_OGRAPHIC, "Equirectangular, clon = 0", "Equidistant Cylindrical",
            << Slot(Str("False easting"), Num(0)), Slot(Str("False northing"), Num(0)),
               Slot(Str("Longitude of natural origin"), Num(0)), Slot(Str("Latitude of 1st standard parallel"), Num(0)),
               EmptySlot, EmptySlot >>),
        projectionCodeRow(12, DATUM.ELLIPSOID_OCENTRIC, "Equirectangular, clon = 0", "Equidistant Cylindrical",
            << Slot(Str("False easting"), Num(0)), Slot(Str("False northing"), Num(0)),
               Slot(Str("Longitude of natural origin"), Num(0)), Slot(Str("Latitude of 1st standard parallel"), Num(0)),
               EmptySlot, EmptySlot >>),
        projectionCodeRow(13, DATUM.TRIAXIAL_OGRAPHIC, "Equirectangular, clon = 0", "Equidistant Cylindrical",
            << Slot(Str("False easting"), Num(0)), Slot(Str("False northing"), Num(0)),
               Slot(Str("Longitude of natural origin"), Num(0)), Slot(Str("Latitude of 1st standard parallel"), Num(0)),
               EmptySlot, EmptySlot >>),
        projectionCodeRow(14, DATUM.TRIAXIAL_OCENTRIC, "Equirectangular, clon = 0", "Equidistant Cylindrical",
            << Slot(Str("False easting"), Num(0)), Slot(Str("False northing"), Num(0)),
               Slot(Str("Longitude of natural origin"), Num(0)), Slot(Str("Latitude of 1st standard parallel"), Num(0)),
               EmptySlot, EmptySlot >>),
        projectionCodeRow(15, DATUM.SPHERE, "Equirectangular, clon = 180", "Equidistant Cylindrical",
            << Slot(Str("False easting"), Num(0)), Slot(Str("False northing"), Num(0)),
               Slot(Str("Longitude of natural origin"), Num(180)), Slot(Str("Latitude of 1st standard parallel"), Num(0)),
               EmptySlot, EmptySlot >>),
        projectionCodeRow(16, DATUM.ELLIPSOID_OGRAPHIC, "Equirectangular, clon = 180", "Equidistant Cylindrical",
            << Slot(Str("False easting"), Num(0)), Slot(Str("False northing"), Num(0)),
               Slot(Str("Longitude of natural origin"), Num(180)), Slot(Str("Latitude of 1st standard parallel"), Num(0)),
               EmptySlot, EmptySlot >>),
        projectionCodeRow(17, DATUM.ELLIPSOID_OCENTRIC, "Equirectangular, clon = 180", "Equidistant Cylindrical",
            << Slot(Str("False easting"), Num(0)), Slot(Str("False northing"), Num(0)),
               Slot(Str("Longitude of natural origin"), Num(180)), Slot(Str("Latitude of 1st standard parallel"), Num(0)),
               EmptySlot, EmptySlot >>),
        projectionCodeRow(18, DATUM.TRIAXIAL_OGRAPHIC, "Equirectangular, clon = 180", "Equidistant Cylindrical",
            << Slot(Str("False easting"), Num(0)), Slot(Str("False northing"), Num(0)),
               Slot(Str("Longitude of natural origin"), Num(180)), Slot(Str("Latitude of 1st standard parallel"), Num(0)),
               EmptySlot, EmptySlot >>),
        projectionCodeRow(19, DATUM.TRIAXIAL_OCENTRIC, "Equirectangular, clon = 180", "Equidistant Cylindrical",
            << Slot(Str("False easting"), Num(0)), Slot(Str("False northing"), Num(0)),
               Slot(Str("Longitude of natural origin"), Num(180)), Slot(Str("Latitude of 1st standard parallel"), Num(0)),
               EmptySlot, EmptySlot >>),
        projectionCodeRow(20, DATUM.SPHERE, "Sinusoidal, clon = 0", "Sinusoidal",
            << Slot(Str("False easting"), Num(0)), Slot(Str("False northing"), Num(0)),
               Slot(Str("Longitude of false origin"), Num(0)), EmptySlot,
               EmptySlot, EmptySlot >>),
        projectionCodeRow(21, DATUM.ELLIPSOID_OGRAPHIC, "Sinusoidal, clon = 0", "Sinusoidal",
            << Slot(Str("False easting"), Num(0)), Slot(Str("False northing"), Num(0)),
               Slot(Str("Longitude of false origin"), Num(0)), EmptySlot,
               EmptySlot, EmptySlot >>),
        projectionCodeRow(22, DATUM.ELLIPSOID_OCENTRIC, "Sinusoidal, clon = 0", "Sinusoidal",
            << Slot(Str("False easting"), Num(0)), Slot(Str("False northing"), Num(0)),
               Slot(Str("Longitude of false origin"), Num(0)), EmptySlot,
               EmptySlot, EmptySlot >>),
        projectionCodeRow(23, DATUM.TRIAXIAL_OGRAPHIC, "Sinusoidal, clon = 0", "Sinusoidal",
            << Slot(Str("False easting"), Num(0)), Slot(Str("False northing"), Num(0)),
               Slot(Str("Longitude of false origin"), Num(0)), EmptySlot,
               EmptySlot, EmptySlot >>),
        projectionCodeRow(24, DATUM.TRIAXIAL_OCENTRIC, "Sinusoidal, clon = 0", "Sinusoidal",
            << Slot(Str("False easting"), Num(0)), Slot(Str("False northing"), Num(0)),
               Slot(Str("Longitude of false origin"), Num(0)), EmptySlot,
               EmptySlot, EmptySlot >>),
        projectionCodeRow(25, DATUM.SPHERE, "Sinusoidal, clon = 180", "Sinusoidal",
            << Slot(Str("False easting"), Num(0)), Slot(Str("False northing"), Num(0)),
               Slot(Str("Longitude of false origin"), Num(180)), EmptySlot,
               EmptySlot, EmptySlot >>),
        projectionCodeRow(26, DATUM.ELLIPSOID_OGRAPHIC, "Sinusoidal, clon = 180", "Sinusoidal",
            << Slot(Str("False easting"), Num(0)), Slot(Str("False northing"), Num(0)),
               Slot(Str("Longitude of false origin"), Num(180)), EmptySlot,
               EmptySlot, EmptySlot >>),
        projectionCodeRow(27, DATUM.ELLIPSOID_OCENTRIC, "Sinusoidal, clon = 180", "Sinusoidal",
            << Slot(Str("False easting"), Num(0)), Slot(Str("False northing"), Num(0)),
               Slot(Str("Longitude of false origin"), Num(180)), EmptySlot,
               EmptySlot, EmptySlot >>),
        projectionCodeRow(28, DATUM.TRIAXIAL_OGRAPHIC, "Sinusoidal, clon = 180", "Sinusoidal",
            << Slot(Str("False easting"), Num(0)), Slot(Str("False northing"), Num(0)),
               Slot(Str("Longitude of false origin"), Num(180)), EmptySlot,
               EmptySlot, EmptySlot >>),
        projectionCodeRow(29, DATUM.TRIAXIAL_OCENTRIC, "Sinusoidal, clon = 180", "Sinusoidal",
            << Slot(Str("False easting"), Num(0)), Slot(Str("False northing"), Num(0)),
               Slot(Str("Longitude of false origin"), Num(180)), EmptySlot,
               EmptySlot, EmptySlot >>),
        projectionCodeRow(30, DATUM.SPHERE, "North Polar, clon = 0", "Stereographic",
            << Slot(Str("False easting"), Num(0)), Slot(Str("False northing"), Num(0)),
               Slot(Str("Longitude of natural origin"), Num(0)), Slot(Str("Scale factor at natural origin"), Num(1)),
               Slot(Str("Latitude of natural origin"), Num(90)), EmptySlot >>),
        projectionCodeRow(31, DATUM.ELLIPSOID_OGRAPHIC, "North Polar, clon = 0", "Stereographic",
            << Slot(Str("False easting"), Num(0)), Slot(Str("False northing"), Num(0)),
               Slot(Str("Longitude of natural origin"), Num(0)), Slot(Str("Scale factor at natural origin"), Num(1)),
               Slot(Str("Latitude of natural origin"), Num(90)), EmptySlot >>),
        projectionCodeRow(32, DATUM.ELLIPSOID_OCENTRIC, "North Polar, clon = 0", "Stereographic",
            << Slot(Str("False easting"), Num(0)), Slot(Str("False northing"), Num(0)),
               Slot(Str("Longitude of natural origin"), Num(0)), Slot(Str("Scale factor at natural origin"), Num(1)),
               Slot(Str("Latitude of natural origin"), Num(90)), EmptySlot >>),
        projectionCodeRow(33, DATUM.TRIAXIAL_OGRAPHIC, "North Polar, clon = 0", "Stereographic",
            << Slot(Str("False easting"), Num(0)), Slot(Str("False northing"), Num(0)),
               Slot(Str("Longitude of natural origin"), Num(0)), Slot(Str("Scale factor at natural origin"), Num(1)),
               Slot(Str("Latitude of natural origin"), Num(90)), EmptySlot >>),
        projectionCodeRow(34, DATUM.TRIAXIAL_OCENTRIC, "North Polar, clon = 0", "Stereographic",
            << Slot(Str("False easting"), Num(0)), Slot(Str("False northing"), Num(0)),
               Slot(Str("Longitude of natural origin"), Num(0)), Slot(Str("Scale factor at natural origin"), Num(1)),
               Slot(Str("Latitude of natural origin"), Num(90)), EmptySlot >>),
        projectionCodeRow(35, DATUM.SPHERE, "South Polar, clon = 0", "Stereographic",
            << Slot(Str("False easting"), Num(0)), Slot(Str("False northing"), Num(0)),
               Slot(Str("Longitude of natural origin"), Num(0)), Slot(Str("Scale factor at natural origin"), Num(1)),
               Slot(Str("Latitude of natural origin"), Num(-90)), EmptySlot >>),
        projectionCodeRow(36, DATUM.ELLIPSOID_OGRAPHIC, "South Polar, clon = 0", "Stereographic",
            << Slot(Str("False easting"), Num(0)), Slot(Str("False northing"), Num(0)),
               Slot(Str("Longitude of natural origin"), Num(0)), Slot(Str("Scale factor at natural origin"), Num(1)),
               Slot(Str("Latitude of natural origin"), Num(-90)), EmptySlot >>),
        projectionCodeRow(37, DATUM.ELLIPSOID_OCENTRIC, "South Polar, clon = 0", "Stereographic",
            << Slot(Str("False easting"), Num(0)), Slot(Str("False northing"), Num(0)),
               Slot(Str("Longitude of natural origin"), Num(0)), Slot(Str("Scale factor at natural origin"), Num(1)),
               Slot(Str("Latitude of natural origin"), Num(-90)), EmptySlot >>),
        projectionCodeRow(38, DATUM.TRIAXIAL_OGRAPHIC, "South Polar, clon = 0", "Stereographic",
            << Slot(Str("False easting"), Num(0)), Slot(Str("False northing"), Num(0)),
               Slot(Str("Longitude of natural origin"), Num(0)), Slot(Str("Scale factor at natural origin"), Num(1)),
               Slot(Str("Latitude of natural origin"), Num(-90)), EmptySlot >>),
        projectionCodeRow(39, DATUM.TRIAXIAL_OCENTRIC, "South Polar, clon = 0", "Stereographic",
            << Slot(Str("False easting"), Num(0)), Slot(Str("False northing"), Num(0)),
               Slot(Str("Longitude of natural origin"), Num(0)), Slot(Str("Scale factor at natural origin"), Num(1)),
               Slot(Str("Latitude of natural origin"), Num(-90)), EmptySlot >>),
        projectionCodeRow(40, DATUM.SPHERE, "Mollweide, clon = 0", "Mollweide",
            << Slot(Str("False easting"), Num(0)), Slot(Str("False northing"), Num(0)),
               Slot(Str("Longitude of natural origin"), Num(0)), EmptySlot,
               EmptySlot, EmptySlot >>),
        projectionCodeRow(41, DATUM.ELLIPSOID_OGRAPHIC, "Mollweide, clon = 0", "Mollweide",
            << Slot(Str("False easting"), Num(0)), Slot(Str("False northing"), Num(0)),
               Slot(Str("Longitude of natural origin"), Num(0)), EmptySlot,
               EmptySlot, EmptySlot >>),
        projectionCodeRow(42, DATUM.ELLIPSOID_OCENTRIC, "Mollweide, clon = 0", "Mollweide",
            << Slot(Str("False easting"), Num(0)), Slot(Str("False northing"), Num(0)),
               Slot(Str("Longitude of natural origin"), Num(0)), EmptySlot,
               EmptySlot, EmptySlot >>),
        projectionCodeRow(43, DATUM.TRIAXIAL_OGRAPHIC, "Mollweide, clon = 0", "Mollweide",
            << Slot(Str("False easting"), Num(0)), Slot(Str("False northing"), Num(0)),
               Slot(Str("Longitude of natural origin"), Num(0)), EmptySlot,
               EmptySlot, EmptySlot >>),
        projectionCodeRow(44, DATUM.TRIAXIAL_OCENTRIC, "Mollweide, clon = 0", "Mollweide",
            << Slot(Str("False easting"), Num(0)), Slot(Str("False northing"), Num(0)),
               Slot(Str("Longitude of natural origin"), Num(0)), EmptySlot,
               EmptySlot, EmptySlot >>),
        projectionCodeRow(45, DATUM.SPHERE, "Mollweide, clon = 180", "Mollweide",
            << Slot(Str("False easting"), Num(0)), Slot(Str("False northing"), Num(0)),
               Slot(Str("Longitude of natural origin"), Num(180)), EmptySlot,
               EmptySlot, EmptySlot >>),
        projectionCodeRow(46, DATUM.ELLIPSOID_OGRAPHIC, "Mollweide, clon = 180", "Mollweide",
            << Slot(Str("False easting"), Num(0)), Slot(Str("False northing"), Num(0)),
               Slot(Str("Longitude of natural origin"), Num(180)), EmptySlot,
               EmptySlot, EmptySlot >>),
        projectionCodeRow(47, DATUM.ELLIPSOID_OCENTRIC, "Mollweide, clon = 180", "Mollweide",
            << Slot(Str("False easting"), Num(0)), Slot(Str("False northing"), Num(0)),
               Slot(Str("Longitude of natural origin"), Num(180)), EmptySlot,
               EmptySlot, EmptySlot >>),
        projectionCodeRow(48, DATUM.TRIAXIAL_OGRAPHIC, "Mollweide, clon = 180", "Mollweide",
            << Slot(Str("False easting"), Num(0)), Slot(Str("False northing"), Num(0)),
               Slot(Str("Longitude of natural origin"), Num(180)), EmptySlot,
               EmptySlot, EmptySlot >>),
        projectionCodeRow(49, DATUM.TRIAXIAL_OCENTRIC, "Mollweide, clon = 180", "Mollweide",
            << Slot(Str("False easting"), Num(0)), Slot(Str("False northing"), Num(0)),
               Slot(Str("Longitude of natural origin"), Num(180)), EmptySlot,
               EmptySlot, EmptySlot >>),
        projectionCodeRow(50, DATUM.SPHERE, "Robinson, clon = 0", "Robinson",
            << Slot(Str("False easting"), Num(0)), Slot(Str("False northing"), Num(0)),
               Slot(Str("Longitude of false origin"), Num(0)), EmptySlot,
               EmptySlot, EmptySlot >>),
        projectionCodeRow(51, DATUM.ELLIPSOID_OGRAPHIC, "Robinson, clon = 0", "Robinson",
            << Slot(Str("False easting"), Num(0)), Slot(Str("False northing"), Num(0)),
               Slot(Str("Longitude of false origin"), Num(0)), EmptySlot,
               EmptySlot, EmptySlot >>),
        projectionCodeRow(52, DATUM.ELLIPSOID_OCENTRIC, "Robinson, clon = 0", "Robinson",
            << Slot(Str("False easting"), Num(0)), Slot(Str("False northing"), Num(0)),
               Slot(Str("Longitude of false origin"), Num(0)), EmptySlot,
               EmptySlot, EmptySlot >>),
        projectionCodeRow(53, DATUM.TRIAXIAL_OGRAPHIC, "Robinson, clon = 0", "Robinson",
            << Slot(Str("False easting"), Num(0)), Slot(Str("False northing"), Num(0)),
               Slot(Str("Longitude of false origin"), Num(0)), EmptySlot,
               EmptySlot, EmptySlot >>),
        projectionCodeRow(54, DATUM.TRIAXIAL_OCENTRIC, "Robinson, clon = 0", "Robinson",
            << Slot(Str("False easting"), Num(0)), Slot(Str("False northing"), Num(0)),
               Slot(Str("Longitude of false origin"), Num(0)), EmptySlot,
               EmptySlot, EmptySlot >>),
        projectionCodeRow(55, DATUM.SPHERE, "Robinson, clon = 180", "Robinson",
            << Slot(Str("False easting"), Num(0)), Slot(Str("False northing"), Num(0)),
               Slot(Str("Longitude of false origin"), Num(180)), EmptySlot,
               EmptySlot, EmptySlot >>),
        projectionCodeRow(56, DATUM.ELLIPSOID_OGRAPHIC, "Robinson, clon = 180", "Robinson",
            << Slot(Str("False easting"), Num(0)), Slot(Str("False northing"), Num(0)),
               Slot(Str("Longitude of false origin"), Num(180)), EmptySlot,
               EmptySlot, EmptySlot >>),
        projectionCodeRow(57, DATUM.ELLIPSOID_OCENTRIC, "Robinson, clon = 180", "Robinson",
            << Slot(Str("False easting"), Num(0)), Slot(Str("False northing"), Num(0)),
               Slot(Str("Longitude of false origin"), Num(180)), EmptySlot,
               EmptySlot, EmptySlot >>),
        projectionCodeRow(58, DATUM.TRIAXIAL_OGRAPHIC, "Robinson, clon = 180", "Robinson",
            << Slot(Str("False easting"), Num(0)), Slot(Str("False northing"), Num(0)),
               Slot(Str("Longitude of false origin"), Num(180)), EmptySlot,
               EmptySlot, EmptySlot >>),
        projectionCodeRow(59, DATUM.TRIAXIAL_OCENTRIC, "Robinson, clon = 180", "Robinson",
            << Slot(Str("False easting"), Num(0)), Slot(Str("False northing"), Num(0)),
               Slot(Str("Longitude of false origin"), Num(180)), EmptySlot,
               EmptySlot, EmptySlot >>),
        projectionCodeRow(60, DATUM.SPHERE, "Tranverse Mercator", "Transverse Mercator",
            << Slot(Str("False easting"), Num(0)), Slot(Str("False northing"), Num(0)),
               Slot(Str("Longitude of natural origin"), Num(0)), Slot(Str("Scale factor at natural origin"), Float(0, 9996)),
               Slot(Str("Latitude of natural origin"), Num(0)), EmptySlot >>),
        projectionCodeRow(61, DATUM.ELLIPSOID_OGRAPHIC, "Tranverse Mercator", "Transverse Mercator",
            << Slot(Str("False easting"), Num(0)), Slot(Str("False northing"), Num(0)),
               Slot(Str("Longitude of natural origin"), Num(0)), Slot(Str("Scale factor at natural origin"), Float(0, 9996)),
               Slot(Str("Latitude of natural origin"), Num(0)), EmptySlot >>),
        projectionCodeRow(62, DATUM.ELLIPSOID_OCENTRIC, "Tranverse Mercator", "Transverse Mercator",
            << Slot(Str("False easting"), Num(0)), Slot(Str("False northing"), Num(0)),
               Slot(Str("Longitude of natural origin"), Num(0)), Slot(Str("Scale factor at natural origin"), Float(0, 9996)),
               Slot(Str("Latitude of natural origin"), Num(0)), EmptySlot >>),
        projectionCodeRow(63, DATUM.TRIAXIAL_OGRAPHIC, "Tranverse Mercator", "Transverse Mercator",
            << Slot(Str("False easting"), Num(0)), Slot(Str("False northing"), Num(0)),
               Slot(Str("Longitude of natural origin"), Num(0)), Slot(Str("Scale factor at natural origin"), Float(0, 9996)),
               Slot(Str("Latitude of natural origin"), Num(0)), EmptySlot >>),
        projectionCodeRow(64, DATUM.TRIAXIAL_OCENTRIC, "Tranverse Mercator", "Transverse Mercator",
            << Slot(Str("False easting"), Num(0)), Slot(Str("False northing"), Num(0)),
               Slot(Str("Longitude of natural origin"), Num(0)), Slot(Str("Scale factor at natural origin"), Float(0, 9996)),
               Slot(Str("Latitude of natural origin"), Num(0)), EmptySlot >>),
        projectionCodeRow(65, DATUM.SPHERE, "Orthographic", "Orthographic",
            << Slot(Str("False easting"), Num(0)), Slot(Str("False northing"), Num(0)),
               Slot(Str("Longitude of natural origin"), Num(0)), Slot(Str("Latitude of natural origin"), Num(90)),
               EmptySlot, EmptySlot >>),
        projectionCodeRow(66, DATUM.ELLIPSOID_OGRAPHIC, "Orthographic", "Orthographic",
            << Slot(Str("False easting"), Num(0)), Slot(Str("False northing"), Num(0)),
               Slot(Str("Longitude of natural origin"), Num(0)), Slot(Str("Latitude of natural origin"), Num(90)),
               EmptySlot, EmptySlot >>),
        projectionCodeRow(67, DATUM.ELLIPSOID_OCENTRIC, "Orthographic", "Orthographic",
            << Slot(Str("False easting"), Num(0)), Slot(Str("False northing"), Num(0)),
               Slot(Str("Longitude of natural origin"), Num(0)), Slot(Str("Latitude of natural origin"), Num(90)),
               EmptySlot, EmptySlot >>),
        projectionCodeRow(68, DATUM.TRIAXIAL_OGRAPHIC, "Orthographic", "Orthographic",
            << Slot(Str("False easting"), Num(0)), Slot(Str("False northing"), Num(0)),
               Slot(Str("Longitude of natural origin"), Num(0)), Slot(Str("Latitude of natural origin"), Num(90)),
               EmptySlot, EmptySlot >>),
        projectionCodeRow(69, DATUM.TRIAXIAL_OCENTRIC, "Orthographic", "Orthographic",
            << Slot(Str("False easting"), Num(0)), Slot(Str("False northing"), Num(0)),
               Slot(Str("Longitude of natural origin"), Num(0)), Slot(Str("Latitude of natural origin"), Num(90)),
               EmptySlot, EmptySlot >>),
        projectionCodeRow(70, DATUM.SPHERE, "Lambert Conic Conformal", "Lambert Conic Conformal (2SP)",
            << Slot(Str("Easting at false origin"), Num(0)), Slot(Str("Northing at false origin"), Num(0)),
               Slot(Str("Longitude of false origin"), Num(0)), Slot(Str("Latitude of false origin"), Num(0)),
               Slot(Str("Latitude of 1st standard parallel"), Num(-20)), Slot(Str("Latitude of 2nd standard parallel"), Num(20)) >>),
        projectionCodeRow(71, DATUM.ELLIPSOID_OGRAPHIC, "Lambert Conic Conformal", "Lambert Conic Conformal (2SP)",
            << Slot(Str("Easting at false origin"), Num(0)), Slot(Str("Northing at false origin"), Num(0)),
               Slot(Str("Longitude of false origin"), Num(0)), Slot(Str("Latitude of false origin"), Num(0)),
               Slot(Str("Latitude of 1st standard parallel"), Num(-20)), Slot(Str("Latitude of 2nd standard parallel"), Num(20)) >>),
        projectionCodeRow(72, DATUM.ELLIPSOID_OCENTRIC, "Lambert Conic Conformal", "Lambert Conic Conformal (2SP)",
            << Slot(Str("Easting at false origin"), Num(0)), Slot(Str("Northing at false origin"), Num(0)),
               Slot(Str("Longitude of false origin"), Num(0)), Slot(Str("Latitude of false origin"), Num(0)),
               Slot(Str("Latitude of 1st standard parallel"), Num(-20)), Slot(Str("Latitude of 2nd standard parallel"), Num(20)) >>),
        projectionCodeRow(73, DATUM.TRIAXIAL_OGRAPHIC, "Lambert Conic Conformal", "Lambert Conic Conformal (2SP)",
            << Slot(Str("Easting at false origin"), Num(0)), Slot(Str("Northing at false origin"), Num(0)),
               Slot(Str("Longitude of false origin"), Num(0)), Slot(Str("Latitude of false origin"), Num(0)),
               Slot(Str("Latitude of 1st standard parallel"), Num(-20)), Slot(Str("Latitude of 2nd standard parallel"), Num(20)) >>),
        projectionCodeRow(74, DATUM.TRIAXIAL_OCENTRIC, "Lambert Conic Conformal", "Lambert Conic Conformal (2SP)",
            << Slot(Str("Easting at false origin"), Num(0)), Slot(Str("Northing at false origin"), Num(0)),
               Slot(Str("Longitude of false origin"), Num(0)), Slot(Str("Latitude of false origin"), Num(0)),
               Slot(Str("Latitude of 1st standard parallel"), Num(-20)), Slot(Str("Latitude of 2nd standard parallel"), Num(20)) >>),
        projectionCodeRow(75, DATUM.SPHERE, "Lambert Azimuthal Equal Area (Spherical)", "Lambert Azimuthal Equal Area (Spherical)",
            << Slot(Str("False easting"), Num(0)), Slot(Str("False northing"), Num(0)),
               Slot(Str("Longitude of natural origin"), Num(0)), Slot(Str("Latitude of natural origin"), Num(0)),
               EmptySlot, EmptySlot >>),
        projectionCodeRow(76, DATUM.ELLIPSOID_OGRAPHIC, "Lambert Azimuthal Equal Area", "Lambert Azimuthal Equal Area",
            << Slot(Str("False easting"), Num(0)), Slot(Str("False northing"), Num(0)),
               Slot(Str("Longitude of natural origin"), Num(0)), Slot(Str("Latitude of natural origin"), Num(90)),
               EmptySlot, EmptySlot >>),
        projectionCodeRow(77, DATUM.ELLIPSOID_OCENTRIC, "Lambert Azimuthal Equal Area", "Lambert Azimuthal Equal Area",
            << Slot(Str("False easting"), Num(0)), Slot(Str("False northing"), Num(0)),
               Slot(Str("Longitude of natural origin"), Num(0)), Slot(Str("Latitude of natural origin"), Num(90)),
               EmptySlot, EmptySlot >>),
        projectionCodeRow(78, DATUM.TRIAXIAL_OGRAPHIC, "Lambert Azimuthal Equal Area", "Lambert Azimuthal Equal Area",
            << Slot(Str("False easting"), Num(0)), Slot(Str("False northing"), Num(0)),
               Slot(Str("Longitude of natural origin"), Num(0)), Slot(Str("Latitude of natural origin"), Num(90)),
               EmptySlot, EmptySlot >>),
        projectionCodeRow(79, DATUM.TRIAXIAL_OCENTRIC, "Lambert Azimuthal Equal Area", "Lambert Azimuthal Equal Area",
            << Slot(Str("False easting"), Num(0)), Slot(Str("False northing"), Num(0)),
               Slot(Str("Longitude of natural origin"), Num(0)), Slot(Str("Latitude of natural origin"), Num(90)),
               EmptySlot, EmptySlot >>),
        projectionCodeRow(80, DATUM.SPHERE, "Albers Equal Area", "Albers Equal Area",
            << Slot(Str("Easting at false origin"), Num(0)), Slot(Str("Northing at false origin"), Num(0)),
               Slot(Str("Longitude of false origin"), Num(0)), Slot(Str("Latitude of false origin"), Num(40)),
               Slot(Str("Latitude of 1st standard parallel"), Num(60)), Slot(Str("Latitude of 2nd standard parallel"), Num(20)) >>),
        projectionCodeRow(81, DATUM.ELLIPSOID_OGRAPHIC, "Albers Equal Area", "Albers Equal Area",
            << Slot(Str("Easting at false origin"), Num(0)), Slot(Str("Northing at false origin"), Num(0)),
               Slot(Str("Longitude of false origin"), Num(0)), Slot(Str("Latitude of false origin"), Num(40)),
               Slot(Str("Latitude of 1st standard parallel"), Num(60)), Slot(Str("Latitude of 2nd standard parallel"), Num(20)) >>),
        projectionCodeRow(82, DATUM.ELLIPSOID_OCENTRIC, "Albers Equal Area", "Albers Equal Area",
            << Slot(Str("Easting at false origin"), Num(0)), Slot(Str("Northing at false origin"), Num(0)),
               Slot(Str("Longitude of false origin"), Num(0)), Slot(Str("Latitude of false origin"), Num(40)),
               Slot(Str("Latitude of 1st standard parallel"), Num(60)), Slot(Str("Latitude of 2nd standard parallel"), Num(20)) >>),
        projectionCodeRow(83, DATUM.TRIAXIAL_OGRAPHIC, "Albers Equal Area", "Albers Equal Area",
            << Slot(Str("Easting at false origin"), Num(0)), Slot(Str("Northing at false origin"), Num(0)),
               Slot(Str("Longitude of false origin"), Num(0)), Slot(Str("Latitude of false origin"), Num(40)),
               Slot(Str("Latitude of 1st standard parallel"), Num(60)), Slot(Str("Latitude of 2nd standard parallel"), Num(20)) >>),
        projectionCodeRow(84, DATUM.TRIAXIAL_OCENTRIC, "Albers Equal Area", "Albers Equal Area",
            << Slot(Str("Easting at false origin"), Num(0)), Slot(Str("Northing at false origin"), Num(0)),
               Slot(Str("Longitude of false origin"), Num(0)), Slot(Str("Latitude of false origin"), Num(40)),
               Slot(Str("Latitude of 1st standard parallel"), Num(60)), Slot(Str("Latitude of 2nd standard parallel"), Num(20)) >>)
    >>

\* The method and the six parameter slots of every row of getProjectionCode.
CatalogConversions ==
    { [ method |-> r.method, parameters |-> r.parameters ] : r \in Range(projectionCodeData) }

\* The method and the six parameter slots of a projected record: those of the rows of
\* getProjectionCode, of a row whose second slot alone is filled, of a row of the
\* catalog of WKTcrs.__projection (whose names are those of another convention) and
\* of a row that has the name of a method as the name of a parameter.
Conversions ==
    CatalogConversions
    \cup
    { [ method |-> "Sinusoidal",
        parameters |-> << EmptySlot, Slot(Str("False northing"), Num(0)),
                          EmptySlot, EmptySlot, EmptySlot, EmptySlot >> ],
      [ method |-> "Equirectangular",
        parameters |-> << Slot(Str("False_Easting"), Num(0)), Slot(Str("False_Northing"), Num(0)),
                          Slot(Str("Central_Meridian"), Num(0)),
                          Slot(Str("latitude_Of_Origin"), Num(0)),
                          EmptySlot, EmptySlot >> ],
      [ method |-> "Sinusoidal",
        parameters |-> << Slot(Str("False easting"), Num(0)), Slot(Str("Sinusoidal"), Num(0)),
                          EmptySlot, EmptySlot, EmptySlot, EmptySlot >> ] }

\* The values of the column 'id' (DATUM holds 0..4; 5 is no member of it).
TagValues == 0..5

ShapeTypes == { "SPHERE", "ELLIPSE", "TRIAXIAL" }

\* A record of a catalog table, as handed to the factory.
Series(hasBaseCRS, type, id, projection_id, longitudeDirection, meridian, conversion) ==
    [ kind               |-> "series",
      hasBaseCRS         |-> hasBaseCRS,
      type               |-> type,
      id                 |-> id,
      projection_id      |-> projection_id,
      longitudeDirection |-> longitudeDirection,
      primeMeridianName  |-> meridian[1],
      primeMeridianValue |-> meridian[2],
      name               |-> "Mars (2015)",
      datum_name         |-> "Mars (2015)",
      ellipsoid_name     |-> "Mars (2015)",
      semiMajorAxis      |-> 9,
      semiMedianAxis     |-> 6,
      semiMinorAxis      |-> 3,
      inverseFlatenning  |-> Str(""),
      authority          |-> "IAU",
      code               |-> 49900 + id,
      version            |-> 2015,
      remark             |-> "Source of IAU Coordinate systems",
      method             |-> conversion.method,
      parameters         |-> conversion.parameters ]

\* The prime meridian columns after __processZeroLongitude.
SeriesMeridians == { <<"Reference_Meridian", "0.0">>, <<"Greenwich", "0.0">> }

NoConversion == [ method |-> "", parameters |-> <<>> ]

PlanetodeticSeries ==
    { Series(FALSE, type, id, id, direction, meridian, NoConversion) :
        type \in ShapeTypes, id \in TagValues,
        direction \in {"east", "west"}, meridian \in SeriesMeridians }

ProjectedSeries ==
    { Series(TRUE, type, id, projection_id, direction, meridian, conversion) :
        type \in ShapeTypes, id \in TagValues, projection_id \in TagValues,
        direction \in {"east", "west"}, meridian \in SeriesMeridians,
        conversion \in Conversions }

SeriesDomain == PlanetodeticSeries \cup ProjectedSeries

\* The outcome of a call: the value it returned, or the exception it raised.
Returns(value) == [raised |-> NoError, value |-> value]

Raises(exception) == [raised |-> exception, value |-> None]

(***************************************************************************)
(* The variant classes.  An instance is a record: the library it belongs   *)
(* to ("wkt" for src/wkt, "src" for the triaxial classes of src/src, which *)
(* are built on the IGeodeticCRS and IProjectedCRS of src/src), its class, *)
(* the record it was built from, its DATUM fragment, its stored text and   *)
(* its two templates.                                                      *)
(***************************************************************************)
OcentricClasses ==
    { "PlanetOcentricEllipsoid", "ProjectedOcentricEllipsoid",
      "OcentricTriaxial", "ProjectedOcentricTriaxial" }

ProjectedClasses ==
    { "ProjectedOcentricEllipsoid", "ProjectedOgraphicEllipsoid",
      "ProjectedOcentricTriaxial", "ProjectedOgraphicTriaxial" }

TriaxialClasses ==
    { "OcentricTriaxial", "OgraphicTriaxial",
      "ProjectedOcentricTriaxial", "ProjectedOgraphicTriaxial" }

\* The ANCHOR clause is rendered for every prime meridian.
compute_datum_always_anchored(shape, record) ==
    [ kind            |-> "DATUM",
      shape           |-> shape,
      datum_name      |-> record.datum_name,
      ellipsoide_name |-> record.ellipsoid_name,
      semi_major      |-> record.semiMajorAxis,
      anchor          |-> << [ kind               |-> "ANCHOR",
                               primeMeridianName  |-> record.primeMeridianName,
                               primeMeridianValue |-> record.primeMeridianValue ] >> ]

\* BiaxialBody.__compute_datum, TriaxialBody.__compute_datum and Body.getDatumBody:
\* the DATUM fragment, whose $anchor is empty for the prime meridian 'Reference_Meridian'.
compute_datum(shape, record) ==
    [ kind            |-> "DATUM",
      shape           |-> shape,
      datum_name      |-> record.datum_name,
      ellipsoide_name |-> record.ellipsoid_name,
      semi_major      |-> record.semiMajorAxis,
      anchor          |-> IF record.primeMeridianName = "Reference_Meridian"
                          THEN <<>>
                          ELSE << [ kind               |-> "ANCHOR",
                                    primeMeridianName  |-> record.primeMeridianName,
                                    primeMeridianValue |-> record.primeMeridianValue ] >> ]

\* The constructors: BiaxialBody.__init__ / TriaxialBody.__init__ and those of the
\* projected classes.
New(lib, class, record) ==
    [ lib                |-> lib,
      class              |-> class,
      data               |-> record,
      datum              |-> compute_datum(IF class \in TriaxialClasses
                                           THEN "TRIAXIAL" ELSE "ELLIPSOID", record),
      wkt                |-> None,
      parameter_template |-> "PARAMETER",
      method_id_template |-> "ID" ]

\* The text of a coordinate-system template after substitution.
CsText(type, longAxis, longitudeDirection) ==
    [ kind |-> "CS", type |-> type, longAxis |-> longAxis,
      longitudeDirection |-> longitudeDirection ]

\* The label of the first axis of a projected coordinate system.
longAxisOf(longitudeDirection) ==
    IF longitudeDirection = "east" THEN "Easting (E)" ELSE "Westing (W)"

\* The property cs of the classes of src/wkt/biaxialBodyWKT.py.
cs_biaxial(self) ==
    LET direction == self.data.longitudeDirection
    IN  CASE self.class = "PlanetOgraphicEllipsoid" ->
                Returns(CsText("ellipsoidal", "Longitude (L)", direction))
          [] self.class = "PlanetOcentricEllipsoid" ->
                Returns(CsText("spherical", "Planetocentric longitude (V)", direction))
          [] self.class = "ProjectedOcentricEllipsoid" ->
                IF direction # "east" THEN Raises("AssertionError")
                ELSE Returns(CsText("Cartesian", longAxisOf(direction), direction))
          [] self.class = "ProjectedOgraphicEllipsoid" ->
                Returns(CsText("Cartesian", longAxisOf(direction), direction))

\* The property cs of the classes of src/wkt/triaxialBodyWKT.py.
cs_triaxial(self) ==
    LET direction == self.data.longitudeDirection
    IN  CASE self.class = "OcentricTriaxial" ->
                IF direction # "east" THEN Raises("AssertionError")
                ELSE Returns(CsText("spherical", "Planetocentric longitude (V)", direction))
          [] self.class = "OgraphicTriaxial" ->
                Returns(CsText("ellipsoidal", "Longitude (L)", direction))
          [] self.class = "ProjectedOcentricTriaxial" ->
                IF direction # "east" THEN Raises("AssertionError")
                ELSE Returns(CsText("Cartesian", "Easting (E)", "east"))
          [] self.class = "ProjectedOgraphicTriaxial" ->
                Returns(CsText("Cartesian", "Easting (E)", "east"))

\* The method getCs of the triaxial classes of src/src: each asserts an east longitude.
getCs_src(self) ==
    LET direction == self.data.longitudeDirection
    IN  IF direction # "east" THEN Raises("AssertionError")
        ELSE CASE self.class = "OcentricTriaxial" ->
                    Returns(CsText("spherical", "Planetocentric longitude (V)", direction))
              [] self.class = "OgraphicTriaxial" ->
                    Returns(CsText("ellipsoidal", "Longitude (L)", direction))
              [] self.class = "ProjectedOcentricTriaxial" ->
                    Returns(CsText("Cartesian", "Easting (E)", "east"))
              [] self.class = "ProjectedOgraphicTriaxial" ->
                    Returns(CsText("Cartesian", "Easting (E)", "east"))

\* The coordinate-system fragment of an instance.
cs(self) ==
    IF self.lib = "src" THEN getCs_src(self)
    ELSE IF self.class \in TriaxialClasses THEN cs_triaxial(self)
    ELSE cs_biaxial(self)

\* The property name: of the unprojected classes and of src/src the name of the record;
\* of the projected classes of src/wkt the name and the word for projection_id.
name(self) ==
    LET record == self.data
    IN  IF self.lib = "wkt" /\ self.class \in ProjectedClasses
        THEN IF record.projection_id = 0
             THEN Returns(record.name \o " / " \o "Sphere")
             ELSE IF record.projection_id = (IF self.class \in TriaxialClasses THEN 4 ELSE 2)
             THEN Returns(record.name \o " / " \o "Ocentric")
             ELSE IF record.projection_id = (IF self.class \in TriaxialClasses THEN 3 ELSE 1)
             THEN Returns(record.name \o " / " \o "Ographic")
             ELSE Raises("DATUM not supported")
        ELSE Returns(record.name)

\* The keyword the projected classes hand to their base class.
keyword_odetic(self) ==
    IF self.class \in OcentricClasses THEN "BASEGEODCRS" ELSE "BASEGEOGCRS"

(***************************************************************************)
(* IProjectedCRS: the table of authorities, the PARAMETER entries and the  *)
(* ID of the METHOD.                                                       *)
(***************************************************************************)
MethodId(authority, code) == [authority |-> authority, code |-> code]

ParameterId(code, unit) == [authority |-> "EPSG", code |-> code, unit |-> unit]

\* The table of authorities with the entries of the methods alone.
_authorityMappingOfMethods ==
    [ key \in { "Equidistant Cylindrical", "Equidistant Cylindrical (Spherical)",
                "Sinusoidal", "Robinson", "Stereographic" } |->
        CASE key = "Equidistant Cylindrical" -> MethodId("EPSG", 1028)
          [] key = "Equidistant Cylindrical (Spherical)" -> MethodId("EPSG", 1029)
          [] key = "Sinusoidal" -> MethodId("GeoTIFF", 24)
          [] key = "Robinson" -> MethodId("GeoTIFF", 23)
          [] key = "Stereographic" -> MethodId("EPSG", 9810) ]

\* IProjectedCRS._authorityMapping: a method has an authority and a code, a parameter
\* has a unit as third item.
_authorityMapping ==
    [ key \in { "Lambert Azimuthal Equal Area (Spherical)", "Equidistant Cylindrical",
                "Equidistant Cylindrical (Spherical)", "Scale factor at natural origin",
                "False easting", "False northing", "Latitude of natural origin",
                "Longitude of natural origin", "Latitude of false origin",
                "Longitude of false origin", "Latitude of 1st standard parallel",
                "Latitude of 2nd standard parallel", "Easting at false origin",
                "Northing at false origin", "Sinusoidal", "Robinson",
                "Transverse Mercator", "Lambert Conic Conformal (2SP)", "Stereographic",
                "Lambert Azimuthal Equal Area", "Albers Equal Area", "Orthographic" } |->
        CASE key = "Lambert Azimuthal Equal Area (Spherical)" -> MethodId("EPSG", 1027)
          [] key = "Equidistant Cylindrical" -> MethodId("EPSG", 1028)
          [] key = "Equidistant Cylindrical (Spherical)" -> MethodId("EPSG", 1029)
          [] key = "Scale factor at natural origin" -> ParameterId(8805, "SCALEUNIT")
          [] key = "False easting" -> ParameterId(8806, "LENGTHUNIT")
          [] key = "False northing" -> ParameterId(8807, "LENGTHUNIT")
          [] key = "Latitude of natural origin" -> ParameterId(8801, "ANGLEUNIT")
          [] key = "Longitude of natural origin" -> ParameterId(8802, "ANGLEUNIT")
          [] key = "Latitude of false origin" -> ParameterId(8821, "ANGLEUNIT")
          [] key = "Longitude of false origin" -> ParameterId(8822, "ANGLEUNIT")
          [] key = "Latitude of 1st standard parallel" -> ParameterId(8823, "ANGLEUNIT")
          [] key = "Latitude of 2nd standard parallel" -> ParameterId(8824, "ANGLEUNIT")
          [] key = "Easting at false origin" -> ParameterId(8826, "LENGTHUNIT")
          [] key = "Northing at false origin" -> ParameterId(8827, "LENGTHUNIT")
          [] key = "Sinusoidal" -> MethodId("GeoTIFF", 24)
          [] key = "Robinson" -> MethodId("GeoTIFF", 23)
          [] key = "Transverse Mercator" -> MethodId("EPSG", 9807)
          [] key = "Lambert Conic Conformal (2SP)" -> MethodId("EPSG", 9802)
          [] key = "Stereographic" -> MethodId("EPSG", 9810)
          [] key = "Lambert Azimuthal Equal Area" -> MethodId("EPSG", 9820)
          [] key = "Albers Equal Area" -> MethodId("EPSG", 9822)
          [] key = "Orthographic" -> MethodId("EPSG", 9840) ]

\* A PARAMETER entry is put in front of the entries rendered so far.
prependParameter(params, entry) == <<entry>> \o params

\* params.append(...)
appendParameter(params, entry) == Append(params, entry)

\* The loop of IProjectedCRS._computeParameters from the pair k on: a pair whose value
\* is NaN is passed over; the name of another is looked up in the table (KeyError for
\* a name that is no key, IndexError for a key without unit).
RECURSIVE computeParametersFrom(_, _, _)
computeParametersFrom(self, k, params) ==
    IF k > Len(self.data.parameters) THEN Returns(params)
    ELSE LET slot == self.data.parameters[k]
         IN  IF isnan(slot.value) THEN computeParametersFrom(self, k + 1, params)
             ELSE IF slot.name.str \notin DOMAIN _authorityMapping THEN Raises("KeyError")
             ELSE LET idAndUnit == _authorityMapping[slot.name.str]
                  IN  IF "unit" \notin DOMAIN idAndUnit THEN Raises("IndexError")
                      ELSE computeParametersFrom(self, k + 1,
                               appendParameter(params,
                                   [ kind             |-> self.parameter_template,
                                     param_key        |-> slot.name.str,
                                     param_val        |-> slot.value,
                                     param_unit       |-> idAndUnit.unit,
                                     param_code       |-> idAndUnit.authority,
                                     param_code_value |-> idAndUnit.code ]))

\* IProjectedCRS._computeParameters
_computeParameters(self) == computeParametersFrom(self, 1, <<>>)

\* _computeMethodID that gives no ID to any method.
_computeMethodIDNever(self) == <<>>

\* IProjectedCRS._computeMethodID: the ID of a method of the table, nothing for another.
_computeMethodID(self) ==
    IF self.data.method \in DOMAIN _authorityMapping
    THEN LET methodValue == _authorityMapping[self.data.method]
         IN  << [ kind            |-> self.method_id_template,
                  method_autority |-> methodValue.authority,
                  method_code     |-> methodValue.code ] >>
    ELSE <<>>

(***************************************************************************)
(* computeWKT.                                                             *)
(***************************************************************************)
\* The text of the template GEODCRS after substitution.
GeodeticText(self, nameValue, csValue) ==
    [ kind      |-> "GEODCRS",
      name      |-> nameValue,
      datum     |-> self.datum,
      cs        |-> csValue,
      authority |-> self.data.authority,
      code      |-> self.data.code,
      version   |-> self.data.version,
      remark    |-> self.data.remark ]

\* A computeWKT whose text tells a repeated call from the first.
IGeodeticCRS_computeWKT_counting(self) ==
    LET nameResult == name(self)
        csResult == cs(self)
    IN  IF nameResult.raised # NoError THEN Raises(nameResult.raised)
        ELSE IF csResult.raised # NoError THEN Raises(csResult.raised)
        ELSE IF self.wkt = None
             THEN Returns(GeodeticText(self, nameResult.value, csResult.value))
             ELSE Returns(GeodeticText(self, nameResult.value \o " (again)", csResult.value))

\* IGeodeticCRS.computeWKT: the name, the datum and the coordinate system are read in
\* this order and substituted in the template GEODCRS.
IGeodeticCRS_computeWKT(self) ==
    LET nameResult == name(self)
        csResult == cs(self)
    IN  IF nameResult.raised # NoError THEN Raises(nameResult.raised)
        ELSE IF csResult.raised # NoError THEN Raises(csResult.raised)
        ELSE Returns(GeodeticText(self, nameResult.value, csResult.value))

\* IProjectedCRS.computeWKT: the parameters are read before the coordinate system and
\* substituted with them in the template PROJCRS.
IProjectedCRS_computeWKT(self) ==
    LET nameResult == name(self)
        paramsResult == _computeParameters(self)
        csResult == cs(self)
    IN  IF nameResult.raised # NoError THEN Raises(nameResult.raised)
        ELSE IF paramsResult.raised # NoError THEN Raises(paramsResult.raised)
        ELSE IF csResult.raised # NoError THEN Raises(csResult.raised)
        ELSE Returns([ kind            |-> "PROJCRS",
                       projection_name |-> self.data.name,
                       keywordOdetic   |-> keyword_odetic(self),
                       name            |-> nameResult.value,
                       datum           |-> self.datum,
                       conversion_name |-> self.data.name,
                       method_name     |-> self.data.method,
                       method_id       |-> _computeMethodID(self),
                       params          |-> paramsResult.value,
                       cs              |-> csResult.value,
                       authority       |-> self.data.authority,
                       code            |-> self.data.code,
                       version         |-> self.data.version ])

\* The method resolution order.  A projected class of src/src derives from Body and
\* IProjectedCRS, and Body defines no computeWKT.  A projected class of src/wkt derives
\* from BiaxialBody or TriaxialBody, which derive from IGeodeticCRS, and then from
\* IProjectedCRS: the computeWKT of IGeodeticCRS comes first.
resolvesToIProjectedCRS(self) == self.lib = "src" /\ self.class \in ProjectedClasses

\* self.computeWKT()
resolved_computeWKT(self) ==
    IF resolvesToIProjectedCRS(self) THEN IProjectedCRS_computeWKT(self)
    ELSE IGeodeticCRS_computeWKT(self)

(***************************************************************************)
(* TemplateWKTFactory (src/wkt/bodyWKT.py).                                *)
(***************************************************************************)
\* The triaxial tags are taken for each other.
createPlanetodeticCrsSwapped(record, idWKT) ==
    CASE idWKT = 0 -> Returns(New("wkt", "PlanetOcentricEllipsoid", record))
      [] idWKT = 1 -> Returns(New("wkt", "PlanetOgraphicEllipsoid", record))
      [] idWKT = 2 -> Returns(New("wkt", "PlanetOcentricEllipsoid", record))
      [] idWKT = 3 -> Returns(New("wkt", "OcentricTriaxial", record))
      [] idWKT = 4 -> Returns(New("wkt", "OgraphicTriaxial", record))
      [] OTHER -> Raises("DATUM not supported")

\* TemplateWKTFactory.createPlanetodeticCrs
createPlanetodeticCrs(record, idWKT) ==
    CASE idWKT = 0 -> Returns(New("wkt", "PlanetOcentricEllipsoid", record))
      [] idWKT = 1 -> Returns(New("wkt", "PlanetOgraphicEllipsoid", record))
      [] idWKT = 2 -> Returns(New("wkt", "PlanetOcentricEllipsoid", record))
      [] idWKT = 3 -> Returns(New("wkt", "OgraphicTriaxial", record))
      [] idWKT = 4 -> Returns(New("wkt", "OcentricTriaxial", record))
      [] OTHER -> Raises("DATUM not supported")

\* TemplateWKTFactory.createProjectedEllipsoidCrs
createProjectedEllipsoidCrs(record, idWKT) ==
    CASE idWKT = 0 -> Returns(New("wkt", "ProjectedOcentricEllipsoid", record))
      [] idWKT = 1 -> Returns(New("wkt", "ProjectedOgraphicEllipsoid", record))
      [] idWKT = 2 -> Returns(New("wkt", "ProjectedOcentricEllipsoid", record))
      [] OTHER -> Raises("This datum is not ellipsoidal")

\* TemplateWKTFactory.createProjectedTriaxialCrs
createProjectedTriaxialCrs(record, idWKT) ==
    CASE idWKT = 3 -> Returns(New("wkt", "ProjectedOgraphicTriaxial", record))
      [] idWKT = 4 -> Returns(New("wkt", "ProjectedOcentricTriaxial", record))
      [] OTHER -> Raises("This datum is not triaxial")

\* TemplateWKTFactory.create
TemplateWKTFactory_create(record) ==
    LET idWKT == record.id
    IN  IF record.hasBaseCRS /\ record.type = "TRIAXIAL"
        THEN createProjectedTriaxialCrs(record, idWKT)
        ELSE IF record.hasBaseCRS
        THEN createProjectedEllipsoidCrs(record, idWKT)
        ELSE createPlanetodeticCrs(record, idWKT)

(***************************************************************************)
(* The life of one variant instance.                                       *)
(***************************************************************************)
\* The number of successful computeWKT calls followed on one instance.
MaxCalls == 2

\* The templates a caller sets in place of the default ones.
ParameterTemplates == { "PARAMETER", "PARAMETER (custom)" }

MethodIdTemplates == { "ID", "ID (custom)" }

\* The records the triaxial classes of src/src are built from: those of a triaxial
\* body, of the variant of the class.
TriaxialSeries ==
    { record \in SeriesDomain : /\ record.type = "TRIAXIAL"
                                /\ record.id \in {3, 4}
                                /\ record.projection_id = record.id }

\* The class of src/src/triaxialBodyWKT.py built from a record of a triaxial body.
TriaxialClassOf(record) ==
    IF record.hasBaseCRS
    THEN (IF record.id = 3 THEN "ProjectedOgraphicTriaxial" ELSE "ProjectedOcentricTriaxial")
    ELSE (IF record.id = 3 THEN "OgraphicTriaxial" ELSE "OcentricTriaxial")

\* instance = TemplateWKTFactory.create(data)
create ==
    /\ series = NoSeries
    /\ \E record \in SeriesDomain :
          LET result == TemplateWKTFactory_create(record)
          IN  /\ series' = record
              /\ instance' = IF result.raised = NoError THEN result.value ELSE NoInstance
              /\ raised' = result.raised
    /\ UNCHANGED <<returned, history>>
    /\ UNCHANGED crsVars

\* instance = OgraphicTriaxial(data), and so on, of src/src/triaxialBodyWKT.py
construct ==
    /\ series = NoSeries
    /\ \E record \in TriaxialSeries :
          /\ series' = record
          /\ instance' = New("src", TriaxialClassOf(record), record)
    /\ UNCHANGED <<raised, returned, history>>
    /\ UNCHANGED crsVars

\* A computeWKT that stores the template itself before the substitution is made.
wkt_assigned_before_substitute(self, result) ==
    IF result.raised = NoError THEN result.value ELSE [kind |-> "template"]

\* self.__wkt = geodetic_crs.substitute(...): the attribute is assigned once every
\* argument has been read and substituted; an exception leaves it as it was.
wkt_assigned(self, result) ==
    IF result.raised = NoError THEN result.value ELSE self.wkt

\* instance.computeWKT()
computeWKT ==
    /\ instance # NoInstance
    /\ history.computes < MaxCalls
    /\ LET result == resolved_computeWKT(instance)
       IN  /\ raised' = result.raised
           /\ instance' = [instance EXCEPT !.wkt = wkt_assigned(instance, result)]
           /\ IF result.raised = NoError
              THEN history' = [history EXCEPT
                                  !.computes = @ + 1,
                                  !.first = IF history.computes = 0
                                            THEN result.value ELSE @]
              ELSE UNCHANGED history
    /\ UNCHANGED <<series, returned>>
    /\ UNCHANGED crsVars

\* instance.wkt of src/wkt, instance.getWKT() of src/src: the stored text is returned
\* whether computeWKT has completed or not.
getWKT ==
    /\ instance # NoInstance
    /\ returned' = [ called   |-> TRUE,
                     value    |-> instance.wkt,
                     computes |-> history.computes ]
    /\ raised' = NoError
    /\ UNCHANGED <<series, instance, history>>
    /\ UNCHANGED crsVars

\* instance.parameter_template = value
set_parameter_template ==
    /\ instance # NoInstance
    /\ instance.lib = "wkt"
    /\ instance.class \in ProjectedClasses
    /\ \E value \in ParameterTemplates :
          instance' = [instance EXCEPT !.parameter_template = value]
    /\ history' = [history EXCEPT !.setAfterFirst = @ \/ history.computes > 0]
    /\ raised' = NoError
    /\ UNCHANGED <<series, returned>>
    /\ UNCHANGED crsVars

\* instance.method_id_template = value
set_method_id_template ==
    /\ instance # NoInstance
    /\ instance.lib = "wkt"
    /\ instance.class \in ProjectedClasses
    /\ \E value \in MethodIdTemplates :
          instance' = [instance EXCEPT !.method_id_template = value]
    /\ history' = [history EXCEPT !.setAfterFirst = @ \/ history.computes > 0]
    /\ raised' = NoError
    /\ UNCHANGED <<series, returned>>
    /\ UNCHANGED crsVars

InitWKT ==
    /\ _df = <<>>
    /\ _ellipsoid = <<>>
    /\ _datum = <<>>
    /\ _planetodetic = <<>>
    /\ _projection = <<>>
    /\ processed = FALSE
    /\ series = NoSeries
    /\ instance = NoInstance
    /\ raised = NoError
    /\ returned = NotCalled
    /\ history = NoHistory

NextWKT ==
    \/ create
    \/ construct
    \/ computeWKT
    \/ getWKT
    \/ set_parameter_template
    \/ set_method_id_template

SpecWKT == InitWKT /\ [][NextWKT]_vars

(***************************************************************************)
(* Properties of the variant classes and of their factory.                 *)
(***************************************************************************)
\* An instance exists and holds a text.
Rendered == instance # NoInstance /\ instance.wkt # None

\* C14: an instance of an ocentric class built from a record whose longitudeDirection
\* is 'west' never holds a text: rendering it fails.
C14_OcentricWestNeverRenders ==
    (/\ instance # NoInstance
     /\ instance.class \in OcentricClasses
     /\ series.longitudeDirection = "west") => instance.wkt = None

\* C15: the coordinate system of every text has the longitude direction of the record
\* it was rendered from, and that of a projected class has the axis 'Easting (E)' for
\* the direction 'east' and 'Westing (W)' for another.
C15_CsDirectionIsTheRecords ==
    Rendered =>
        /\ instance.wkt.cs.longitudeDirection = series.longitudeDirection
        /\ instance.class \in ProjectedClasses =>
              instance.wkt.cs.longAxis = (IF series.longitudeDirection = "east"
                                          THEN "Easting (E)" ELSE "Westing (W)")

\* The slots of the record whose value is a number.
FilledSlots == { k \in DOMAIN series.parameters : ~isnan(series.parameters[k].value) }

\* C16: the parameter list of a text PROJCRS has one PARAMETER entry for each slot of
\* the record whose value is a number, in the order of the slots, and no other entry.
C16_OneParameterPerFilledSlot ==
    (Rendered /\ instance.wkt.kind = "PROJCRS") =>
        LET params == instance.wkt.params
        IN  /\ Len(params) = Cardinality(FilledSlots)
            /\ \A k \in FilledSlots :
                  LET entry == params[Cardinality({ j \in FilledSlots : j <= k })]
                  IN  /\ entry.param_key = series.parameters[k].name.str
                      /\ entry.param_val = series.parameters[k].value

C16_Witness ==
    /\ Rendered
    /\ instance.wkt.kind = "PROJCRS"
    /\ FilledSlots = {2}
    /\ Len(instance.wkt.params) = 1
    /\ instance.wkt.params[1].param_key = "False northing"

\* C17: the DATUM fragment of every instance, and of its text, has an ANCHOR clause
\* with the prime meridian of the record when the name of that meridian is not
\* 'Reference_Meridian', and none when it is.
C17_AnchorIffNotReferenceMeridian ==
    instance # NoInstance =>
        /\ instance.datum.anchor =
              (IF series.primeMeridianName = "Reference_Meridian"
               THEN <<>>
               ELSE << [ kind               |-> "ANCHOR",
                         primeMeridianName  |-> series.primeMeridianName,
                         primeMeridianValue |-> series.primeMeridianValue ] >>)
        /\ instance.wkt # None => instance.wkt.datum = instance.datum

C17_Witness ==
    /\ Rendered
    /\ series.primeMeridianName = "Greenwich"
    /\ Len(instance.wkt.datum.anchor) = 1
    /\ instance.wkt.datum.anchor[1].primeMeridianName = "Greenwich"

\* C18: the getter of the text returns nothing on an instance on which no computeWKT
\* has completed.
C18_GetterFailsBeforeComputeWKT ==
    returned.called => returned.computes > 0

DispatchedClass ==
    IF series.hasBaseCRS /\ series.type = "TRIAXIAL"
    THEN CASE series.id = 3 -> "ProjectedOgraphicTriaxial"
           [] series.id = 4 -> "ProjectedOcentricTriaxial"
           [] OTHER -> "None"
    ELSE IF series.hasBaseCRS
    THEN CASE series.id \in {0, 2} -> "ProjectedOcentricEllipsoid"
           [] series.id = 1 -> "ProjectedOgraphicEllipsoid"
           [] OTHER -> "None"
    ELSE CASE series.id \in {0, 2} -> "PlanetOcentricEllipsoid"
           [] series.id = 1 -> "PlanetOgraphicEllipsoid"
           [] series.id = 3 -> "OgraphicTriaxial"
           [] series.id = 4 -> "OcentricTriaxial"
           [] OTHER -> "None"

\* C20: the factory gives every record the class of its (base CRS, type, tag): the
\* projected triaxial classes for a triaxial record with base CRS (ographic 3,
\* ocentric 4), the projected ellipsoid classes for another record with base CRS
\* (ocentric 0 and 2, ographic 1), the unprojected classes for a record without base
\* CRS (ocentric ellipsoid 0 and 2, ographic ellipsoid 1, ographic triaxial 3,
\* ocentric triaxial 4); a record it names no class for gets no instance, and one
\* without base CRS fails with 'DATUM not supported'.
C20_FactoryDispatch ==
    series # NoSeries =>
        /\ instance.class = DispatchedClass
        /\ (~series.hasBaseCRS /\ series.id \notin 0..4) =>
              instance = NoInstance /\ raised = "DATUM not supported"

C20_Witness ==
    /\ series # NoSeries
    /\ ~series.hasBaseCRS
    /\ series.id = 3
    /\ instance # NoInstance
    /\ instance.lib = "wkt"
    /\ instance.class = "OgraphicTriaxial"

C22_ParityOfTagAndCsType ==
    processed =>
        \A r \in Range(_planetodetic) :
            LET ocentricNamed == \E d \in Range(_datum) : r.name = d.name \o " / Ocentric"
                ographicNamed == \E d \in Range(_datum) : r.name = d.name \o " / Ographic"
            IN  \/ /\ ocentricNamed
                   /\ r.id \in {0, 2, 4}
                   /\ r.code % 2 = 0
                   /\ r.code % 100 = r.id
                   /\ r.csType = "spherical"
                \/ /\ ographicNamed
                   /\ r.id \in {1, 3}
                   /\ r.code % 2 = 1
                   /\ r.code % 100 = r.id
                   /\ r.csType = "ellipsoidal"
                   /\ r.type # "SPHERE"

C22_Witness ==
    /\ processed
    /\ { r.id : r \in Range(_planetodetic) } = 0..4
    /\ \E r \in Range(_planetodetic) : r.id = 3 /\ r.csType = "ellipsoidal"
    /\ \E r \in Range(_planetodetic) : r.id = 4 /\ r.csType = "spherical"

\* The radius of the sphere that stands for the body row b: its mean radius (the mean
\* of the three semi-axes when IAU2015_Mean is -1) when the three semi-axes are pairwise
\* distinct, its semi-major axis otherwise.
SphereRadius(b) ==
    IF PairwiseDistinct(b)
    THEN IF b.IAU2015_Mean = -1
         THEN (b.IAU2015_Semimajor + b.IAU2015_Axisb + b.IAU2015_Semiminor) \div 3
         ELSE b.IAU2015_Mean
    ELSE b.IAU2015_Semimajor

\* C23: every SPHERE record of the ellipsoid table has semiMajorAxis = semiMinorAxis and
\* no median axis, the common radius being the mean radius of the body when its three
\* semi-axes are pairwise distinct and its semi-major axis otherwise.
C23_SphereRadius ==
    processed =>
        \A r \in Range(_ellipsoid) :
            r.type = "SPHERE" =>
                /\ r.semiMajorAxis = r.semiMinorAxis
                /\ r.semiMedianAxis = Str("")
                /\ r.semiMajorAxis = SphereRadius(BodyRowOf(r.Naif_id))

\* C27: a body gets a TRIAXIAL ellipsoid record only if its three semi-axes are pairwise
\* distinct; a body with two equal semi-axes (major = minor included) gets neither a
\* TRIAXIAL record nor a sphere of its mean radius.
C27_TriaxialOnlyIfPairwiseDistinct ==
    processed =>
        \A b \in PresentRows :
            ~PairwiseDistinct(b) =>
                /\ EllipsoidRecords(b, "TRIAXIAL") = {}
                /\ \A i \in EllipsoidRecords(b, "SPHERE") :
                      _ellipsoid[i].semiMajorAxis = b.IAU2015_Semimajor

\* C24 as stated: every datum record of a body whose rotation is not given in the input
\* row has primeMeridianValue 0.0 and the Reference-Meridian sentinel as primeMeridianName.
C24_AbsentRotationDefaultsMeridian ==
    processed =>
        \A d \in Range(_datum) :
            BodyRowOf(d.Naif_id).rotation = NaN =>
                /\ d.primeMeridianValue = "0.0"
                /\ d.primeMeridianName = "Reference_Meridian"

\* C24: every datum record of a body whose prime-meridian name (longitude) is absent in
\* the input row has the Reference-Meridian sentinel as primeMeridianName (0.0 as
\* primeMeridianValue), whatever the rotation of the body; a prime meridian given in the
\* input row is kept, also for a body whose rotation is not given.
C24_AbsentMeridianDefaults ==
    processed =>
        \A d \in Range(_datum) :
            LET b == BodyRowOf(d.Naif_id)
            IN  /\ d.primeMeridianName =
                      (IF b.origin_long_name = NaN THEN "Reference_Meridian"
                       ELSE b.origin_long_name)
                /\ d.primeMeridianValue =
                      (IF b.origin_lon_pos = NaN THEN "0.0" ELSE b.origin_lon_pos)

C24_Witness ==
    /\ processed
    /\ \E d \in Range(_datum) :
          /\ BodyRowOf(d.Naif_id).rotation = NaN
          /\ BodyRowOf(d.Naif_id).origin_long_name = "Greenwich"
          /\ d.primeMeridianName = "Greenwich"
    /\ \E d \in Range(_datum) :
          /\ BodyRowOf(d.Naif_id).rotation = "Direct"
          /\ BodyRowOf(d.Naif_id).origin_long_name = NaN
          /\ d.primeMeridianName = "Reference_Meridian"
          /\ d.primeMeridianValue = "0.0"

\* The positions of the projected records whose base CRS is the reference ref.
ProjectedRecords(ref) ==
    { i \in 1..Len(_projection) : _projection[i].baseCRS = ref }

\* The positions of the planetodetic records whose reference is ref.
PlanetodeticRecords(ref) ==
    { j \in 1..Len(_planetodetic) : reference(_planetodetic[j]) = ref }

\* C26: for every planetodetic record with variant-tag v and every row of the projection
\* catalog, the projection table holds one projected record of that row with the
\* 'authority:version:code' of the planetodetic record as baseCRS when the variant of the
\* row is v, and none otherwise; the projection table holds no other record.
C26_OneProjectedRecordPerCatalogRow ==
    processed =>
        LET catalog == Range(data)
            references == { reference(p) : p \in Range(_planetodetic) }
        IN  /\ \A p \in Range(_planetodetic) :
                  LET projected == ProjectedRecords(reference(p))
                      sources == Cardinality(PlanetodeticRecords(reference(p)))
                  IN  \A c \in catalog :
                          Cardinality({ i \in projected :
                                          _projection[i].proj_id = c.proj_id }) =
                              (IF c.id = p.id THEN sources ELSE 0)
            /\ \A r \in Range(_projection) :
                  /\ r.baseCRS \in references
                  /\ \E c \in catalog : r.proj_id = c.proj_id /\ r.name = c.name

C26_Witness ==
    /\ processed
    /\ \E p \in Range(_planetodetic) :
          /\ p.id = 3
          /\ Cardinality(PlanetodeticRecords(reference(p))) = 1
          /\ Cardinality(ProjectedRecords(reference(p))) = 10
          /\ \A i \in 1..Len(_projection) :
                _projection[i].baseCRS = reference(p) => _projection[i].proj_id % 5 = 3

(***************************************************************************)
(* Properties of the variant classes (continued).                          *)
(***************************************************************************)
\* The names of the table of authorities whose entry has a unit as third item.
KeysWithUnit ==
    { key \in DOMAIN _authorityMapping : "unit" \in DOMAIN _authorityMapping[key] }

\* The record has a parameter with a value whose name is no key with a unit.
HasUnknownParameter(record) ==
    \E k \in DOMAIN record.parameters :
        /\ ~isnan(record.parameters[k].value)
        /\ record.parameters[k].name.str \notin KeysWithUnit

\* C25: an instance whose computeWKT renders the CONVERSION parameters and whose record
\* has a parameter with a value (not NaN) under a name that is no key with a unit of the
\* table of authorities never gets a text; the METHOD of a rendered text has the ID
\* [authority, code] of the table exactly when the name of the method is a key of the
\* table, and no ID otherwise.
C25_UnknownParameterFailsAndMethodId ==
    (instance # NoInstance /\ resolvesToIProjectedCRS(instance)) =>
        /\ HasUnknownParameter(instance.data) => instance.wkt = None
        /\ Rendered =>
              IF instance.data.method \in DOMAIN _authorityMapping
              THEN /\ Len(instance.wkt.method_id) = 1
                   /\ instance.wkt.method_id[1].method_autority =
                          _authorityMapping[instance.data.method].authority
                   /\ instance.wkt.method_id[1].method_code =
                          _authorityMapping[instance.data.method].code
              ELSE instance.wkt.method_id = <<>>

C25_Witness ==
    /\ instance # NoInstance
    /\ resolvesToIProjectedCRS(instance)
    /\ HasUnknownParameter(instance.data)
    /\ raised = "KeyError"
    /\ instance.wkt = None

ConversionOf(self) == [ method |-> self.data.method, parameters |-> self.data.parameters ]

\* C30: in every row of the catalog of getProjectionCode the name of every parameter
\* with a value (not NaN) is a key of the table of authorities whose entry has a unit,
\* the variant id is proj_id mod 5 and proj_id + id is below 100; and a computeWKT that
\* renders the parameters of a row of the catalog never fails on the lookup of a name.
\* The rows are those the record handed to the instance has its conversion from.
C30_CatalogInSyncWithAuthorityTable ==
    /\ series # NoSeries =>
          \A k \in DOMAIN projectionCodeData :
              LET row == projectionCodeData[k]
              IN  (row.method = series.method /\ row.parameters = series.parameters) =>
                      /\ \A i \in DOMAIN row.parameters :
                            ~isnan(row.parameters[i].value) =>
                                /\ row.parameters[i].name.str \in DOMAIN _authorityMapping
                                /\ "unit" \in
                                       DOMAIN _authorityMapping[row.parameters[i].name.str]
                      /\ row.id = row.proj_id % 5
                      /\ row.proj_id + row.id < 100
    /\ (/\ instance # NoInstance
        /\ resolvesToIProjectedCRS(instance)
        /\ ConversionOf(instance) \in CatalogConversions)
           => raised \notin {"KeyError", "IndexError"}

C30_Witness ==
    /\ Rendered
    /\ resolvesToIProjectedCRS(instance)
    /\ ConversionOf(instance) \in CatalogConversions
    /\ instance.data.method = "Transverse Mercator"
    /\ Len(instance.wkt.params) = 5
    /\ instance.wkt.params[4].param_val = Float(0, 9996)
    /\ instance.wkt.params[4].param_unit = "SCALEUNIT"

(***************************************************************************)
(* From the tables to the texts: every record of the planetodetic table is *)
(* joined with its datum and handed to a variant class, whose text is then *)
(* computed and read (Crs2WKT.process and Crs2WKT.getWkts, as src/test.py  *)
(* calls them).                                                            *)
(***************************************************************************)
\* The largest number of rows of the table of bodies whose records are rendered.
MaxBodies == 2

\* The record of the planetodetic table as the variant classes read it: with the prime
\* meridian of its datum, its type and its variant-tag.
SeriesOfPlanetodetic(p) ==
    LET d == CHOOSE d \in Range(_datum) : reference(d) = p.datum
    IN  Series(FALSE, p.type, p.id, p.id, p.longitudeDirection,
               <<d.primeMeridianName, d.primeMeridianValue>>, NoConversion)

InitGetWkts ==
    /\ _df \in { t \in Tables : Len(t) <= MaxBodies }
    /\ _ellipsoid = <<>>
    /\ _datum = <<>>
    /\ _planetodetic = <<>>
    /\ _projection = <<>>
    /\ processed = FALSE
    /\ series = NoSeries
    /\ instance = NoInstance
    /\ raised = NoError
    /\ returned = NotCalled
    /\ history = NoHistory

\* instance = TemplateWKTFactory.create(data) of src/wkt/bodyWKT.py for a record of the
\* planetodetic table
createFromPlanetodetic ==
    /\ processed
    /\ series = NoSeries
    /\ \E p \in Range(_planetodetic) :
          LET record == SeriesOfPlanetodetic(p)
              result == TemplateWKTFactory_create(record)
          IN  /\ series' = record
              /\ instance' = IF result.raised = NoError THEN result.value ELSE NoInstance
              /\ raised' = result.raised
    /\ UNCHANGED <<returned, history>>
    /\ UNCHANGED crsVars

\* createPlanetodeticCrs of src/src/bodyWKT.py for a record of the planetodetic table
\* with tag 3 or 4: instance = OgraphicTriaxial(data), instance = OcentricTriaxial(data)
\* of src/src/triaxialBodyWKT.py
constructFromPlanetodetic ==
    /\ processed
    /\ series = NoSeries
    /\ \E p \in Range(_planetodetic) :
          /\ p.id \in {3, 4}
          /\ series' = SeriesOfPlanetodetic(p)
          /\ instance' = New("src", TriaxialClassOf(SeriesOfPlanetodetic(p)),
                             SeriesOfPlanetodetic(p))
    /\ UNCHANGED <<raised, returned, history>>
    /\ UNCHANGED crsVars

NextGetWkts ==
    \/ process
    \/ createFromPlanetodetic
    \/ constructFromPlanetodetic
    \/ computeWKT
    \/ getWKT

SpecGetWkts == InitGetWkts /\ [][NextGetWkts]_vars

\* C29: every record of the planetodetic table is accepted from the factory to the
\* text: the factory raises no unsupported-datum error for its type and variant-tag,
\* and the computeWKT of its instance raises nothing, the assertion on the longitude
\* direction included (the ographic TRIAXIAL record of a directly rotating body, whose
\* longitudeDirection is 'west', renders).
C29_EveryPlanetodeticRecordRenders ==
    series # NoSeries =>
        /\ instance # NoInstance
        /\ raised = NoError

====
